---------------------------- MODULE Spec2Model ----------------------------
(***************************************************************************)
(* Sound Agent: the conversion-and-classification engine and the          *)
(* components that call it: the compliance checker, the document uploader  *)
(* (paste box, file drops, row selector) and the page with its saved data. *)
(*                                                                         *)
(* The engine is a set of pure functions over numbers.  Numbers are kept   *)
(* on fixed decimal grids so that every rounding the code applies is a     *)
(* computation of the model:                                               *)
(*   octave-band levels and NC ratings   integers (dB, NC points)          *)
(*   dBA values                          tenths of a dB    (dba10)          *)
(*   sones values                        hundredths        (sones100)       *)
(*   unrounded phons / sones             millionths        (micro)          *)
(* Math.pow, Math.log2 and Math.log10 are tabulated on these grids; the    *)
(* tabulated conversions agree with IEEE double arithmetic on every dBA    *)
(* value 0.1..149.9, every sones value m*2^j/100 (m <= 128, j <= 7) and    *)
(* every spectrum of the input set.                                        *)
(* An optional field of a TypeScript object is a sequence of length 0      *)
(* (undefined) or 1 (set).                                                 *)
(***************************************************************************)
EXTENDS Integers, Sequences, FiniteSets, TLC

VARIABLES
  input,    \* the Partial<SoundMeasurement> handed to the engine
  called,   \* the engine function that has been called ("none" before the call)
  result,   \* SoundMeasurement returned by convertSoundMeasurement
  conv,     \* ConversionResult returned by a pairwise or chained conversion
  curve,    \* OctaveBandData returned by interpolateNCCurve (optional)
  num,      \* number returned by calculateNCRating, getMaxNC70Excess,
            \* sonesToPhons or phonsToSones
  flag,     \* boolean returned by exceedsNC70
  table,    \* the module-level array NC_CURVES as the engine finds it
  other,    \* what a second caller of the engine last called and got back
  equipmentNC,     \* ComplianceChecker: the equipmentNC prop (optional)
  selectedRoomId,  \* ComplianceChecker: the selected room type id, "" for none
  compliance,      \* ComplianceChecker: the memoized ComplianceResult (optional)
  uploadState,     \* DocumentUploader: "idle", "processing", "success" or "error"
  parseResult,     \* DocumentUploader: the ParseResult shown (optional)
  showPasteInput,  \* DocumentUploader: the paste box is open
  pasteText,       \* DocumentUploader: the text in the paste box, a sequence of
                   \* characters
  usedAI,          \* DocumentUploader: the shown result came from the vision parser
  selectedRowIndex,  \* DocumentUploader: the row of the result that is shown
  showRowSelector,   \* DocumentUploader: the list of rows is open
  hasApiKey,         \* DocumentUploader: a Gemini API key is configured
  inFlight,          \* DocumentUploader: the onDrop calls that wait for a
                     \* parser, in the order they started
  latest,            \* history: what the component shows was set by the
                     \* extraction that started last
  inputMode,       \* page: the input mode of the form
  pageOctaveBands, \* page: the octaveBands state of the form (optional)
  savedData,       \* page: the saved items, in the order they were added
  selectedDataId,  \* page: the id of the selected saved item (optional)
  uuids,           \* page: how many ids crypto.randomUUID() has handed out
  inputValue,      \* page: the number in the single-value input (optional:
                   \* none when the input is empty)
  editingId,       \* page: the id of the saved item being renamed (optional)
  editingName      \* page: the name in the rename box

\* the variables that are not the first caller's
shared == <<table, other>>

\* the variables of the engine and its callers
engine == <<input, called, result, conv, curve, num, flag, table, other>>

\* the variables of the ComplianceChecker component
checker == <<equipmentNC, selectedRoomId, compliance>>

\* the variables of the DocumentUploader component
uploader ==
  <<uploadState, parseResult, showPasteInput, pasteText, usedAI, selectedRowIndex,
    showRowSelector, hasApiKey, inFlight, latest>>

\* the variables of the page that the engine does not own
page ==
  <<inputMode, pageOctaveBands, savedData, selectedDataId, uuids, inputValue,
    editingId, editingName>>

\* the variables outside the engine
outside == <<checker, uploader, page>>

vars == <<engine, checker, uploader, page>>

-----------------------------------------------------------------------------
(* Bounds of the input sets.                                               *)

\* spectra are standard curves shifted as a whole by -MaxShift..MaxShift dB
MaxShift == 2
\* ... and raised at one frequency by 0..MaxBump dB
MaxBump == 3
\* NC inputs range over (15 - Margin)..(70 + Margin)
Margin == 6
\* dBA inputs range over -Margin..MaxDBA dB in steps of a tenth
MaxDBA == 90
\* sones inputs are m * 2^j hundredths, m in 0..MaxMant, j in 0..MaxExp
MaxMant == 100
MaxExp == 3

-----------------------------------------------------------------------------
(* Optional values and rounding.                                           *)

None == <<>>
Some(v) == <<v>>
IsSet(o) == Len(o) = 1
Val(o) == o[1]

\* Math.round(n / d) for d > 0: the nearest integer, halves towards +infinity
RoundDiv(n, d) == (2 * n + d) \div (2 * d)

RECURSIVE Pow(_, _)
Pow(b, e) == IF e = 0 THEN 1 ELSE b * Pow(b, e - 1)

Max2(a, b) == IF a >= b THEN a ELSE b
Min2(a, b) == IF a <= b THEN a ELSE b

-----------------------------------------------------------------------------
(* Math library tables.                                                    *)

\* 10^8 * 10^(-r/100) for r = 0..99 (entry r+1)
Pow10NegFrac ==
  <<
     100000000, 97723722, 95499259, 93325430, 91201084, 89125094, 87096359, 85113804, 83176377, 81283052,
     79432823, 77624712, 75857758, 74131024, 72443596, 70794578, 69183097, 67608298, 66069345, 64565423,
     63095734, 61659500, 60255959, 58884366, 57543994, 56234133, 54954087, 53703180, 52480746, 51286138,
     50118723, 48977882, 47863009, 46773514, 45708819, 44668359, 43651583, 42657952, 41686938, 40738028,
     39810717, 38904514, 38018940, 37153523, 36307805, 35481339, 34673685, 33884416, 33113112, 32359366,
     31622777, 30902954, 30199517, 29512092, 28840315, 28183829, 27542287, 26915348, 26302680, 25703958,
     25118864, 24547089, 23988329, 23442288, 22908677, 22387211, 21877616, 21379621, 20892961, 20417379,
     19952623, 19498446, 19054607, 18620871, 18197009, 17782794, 17378008, 16982437, 16595869, 16218101,
     15848932, 15488166, 15135612, 14791084, 14454398, 14125375, 13803843, 13489629, 13182567, 12882496,
     12589254, 12302688, 12022644, 11748976, 11481536, 11220185, 10964782, 10715193, 10471285, 10232930
  >>

\* 10^8 * 10^((j - 1/2)/100) for j = 1..91: the rounding thresholds of 100*log10
Log10Thr ==
  <<
     101157945, 103514217, 105925373, 108392691, 110917482, 113501082, 116144861, 118850223, 121618600, 124451461,
     127350308, 130316678, 133352143, 136458314, 139636836, 142889396, 146217717, 149623566, 153108746, 156675107,
     160324539, 164058977, 167880402, 171790839, 175792361, 179887092, 184077200, 188364909, 192752491, 197242274,
     201836636, 206538016, 211348904, 216271852, 221309471, 226464431, 231739465, 237137371, 242661010, 248313311,
     254097271, 260015956, 266072506, 272270131, 278612117, 285101827, 291742701, 298538262, 305492111, 312607937,
     319889511, 327340695, 334965439, 342767787, 350751874, 358921935, 367282300, 375837404, 384591782, 393550075,
     402717034, 412097519, 421696503, 431519077, 441570447, 451855944, 462381021, 473151259, 484172368, 495450191,
     506990708, 518800039, 530884444, 543250331, 555904257, 568852931, 582103218, 595662144, 609536897, 623734835,
     638263486, 653130553, 668343918, 683911647, 699841996, 716143410, 732824533, 749894209, 767361489, 785235635,
     803526122
  >>

\* 10^8 * 2^(r/100) for r = 0..99 (entry r+1)
Pow2Frac ==
  <<
     100000000, 100695555, 101395948, 102101213, 102811383, 103526492, 104246576, 104971668, 105701804, 106437018,
     107177346, 107922824, 108673486, 109429370, 110190512, 110956947, 111728714, 112505848, 113288389, 114076372,
     114869835, 115668818, 116473359, 117283495, 118099266, 118920712, 119747870, 120580783, 121419488, 122264028,
     123114441, 123970770, 124833055, 125701337, 126575659, 127456063, 128342590, 129235283, 130134186, 131039340,
     131950791, 132868581, 133792755, 134723358, 135660433, 136604026, 137554182, 138510947, 139474367, 140444488,
     141421356, 142405020, 143395525, 144392920, 145397252, 146408570, 147426922, 148452357, 149484925, 150524675,
     151571657, 152625921, 153687518, 154756499, 155832916, 156916820, 158008262, 159107297, 160213976, 161328352,
     162450479, 163580412, 164718203, 165863909, 167017584, 168179283, 169349062, 170526978, 171713087, 172907446,
     174110113, 175321144, 176540599, 177768536, 179005014, 180250093, 181503831, 182766290, 184037530, 185317612,
     186606598, 187904550, 189211529, 190527600, 191852824, 193187266, 194530989, 195884060, 197246541, 198618499
  >>

\* 10^6 * (p/40)^2.642 for p = 0.1, 0.2, ..., 39.9 (entry 10p)
PowLow ==
  <<
     0, 1, 2, 5, 9, 15, 23, 32, 44, 59,
     75, 95, 117, 142, 171, 203, 238, 277, 319, 365,
     416, 470, 528, 591, 659, 731, 807, 889, 975, 1066,
     1163, 1265, 1372, 1484, 1602, 1726, 1856, 1991, 2133, 2280,
     2434, 2594, 2760, 2933, 3113, 3299, 3492, 3691, 3898, 4112,
     4333, 4561, 4796, 5039, 5289, 5547, 5813, 6086, 6367, 6656,
     6953, 7259, 7572, 7894, 8224, 8562, 8909, 9265, 9629, 10002,
     10384, 10775, 11175, 11584, 12002, 12430, 12867, 13313, 13769, 14234,
     14709, 15193, 15688, 16192, 16706, 17231, 17765, 18310, 18865, 19430,
     20005, 20591, 21188, 21795, 22413, 23042, 23681, 24332, 24993, 25666,
     26350, 27045, 27751, 28468, 29197, 29938, 30689, 31453, 32228, 33015,
     33814, 34625, 35448, 36283, 37130, 37989, 38860, 39744, 40640, 41548,
     42469, 43403, 44349, 45308, 46280, 47265, 48262, 49273, 50296, 51333,
     52383, 53446, 54522, 55612, 56715, 57832, 58962, 60106, 61264, 62435,
     63620, 64819, 66032, 67259, 68500, 69755, 71025, 72308, 73606, 74919,
     76246, 77587, 78943, 80313, 81698, 83098, 84513, 85943, 87387, 88847,
     90322, 91811, 93316, 94836, 96372, 97923, 99489, 101071, 102668, 104281,
     105909, 107553, 109213, 110889, 112581, 114288, 116012, 117752, 119508, 121280,
     123068, 124872, 126693, 128530, 130384, 132255, 134141, 136045, 137965, 139902,
     141856, 143827, 145814, 147819, 149840, 151879, 153935, 156008, 158098, 160206,
     162331, 164473, 166633, 168811, 171006, 173219, 175449, 177697, 179963, 182247,
     184549, 186869, 189207, 191563, 193937, 196329, 198739, 201168, 203616, 206081,
     208565, 211068, 213589, 216129, 218687, 221265, 223861, 226476, 229109, 231762,
     234434, 237125, 239835, 242564, 245312, 248080, 250866, 253673, 256498, 259344,
     262208, 265093, 267997, 270920, 273864, 276827, 279810, 282813, 285836, 288878,
     291941, 295024, 298127, 301251, 304394, 307558, 310743, 313947, 317172, 320418,
     323684, 326971, 330279, 333607, 336956, 340326, 343716, 347128, 350561, 354014,
     357489, 360984, 364501, 368040, 371599, 375180, 378782, 382405, 386050, 389717,
     393405, 397114, 400846, 404599, 408374, 412170, 415989, 419829, 423691, 427576,
     431482, 435411, 439361, 443334, 447329, 451347, 455386, 459449, 463533, 467640,
     471770, 475922, 480097, 484294, 488515, 492758, 497024, 501312, 505624, 509959,
     514316, 518697, 523101, 527528, 531978, 536452, 540949, 545469, 550012, 554579,
     559170, 563784, 568422, 573083, 577768, 582476, 587209, 591965, 596745, 601549,
     606377, 611230, 616106, 621006, 625930, 630879, 635852, 640849, 645870, 650916,
     655986, 661081, 666200, 671344, 676512, 681705, 686923, 692165, 697433, 702725,
     708042, 713384, 718751, 724143, 729560, 735002, 740469, 745962, 751479, 757022,
     762591, 768185, 773804, 779448, 785119, 790814, 796536, 802283, 808055, 813854,
     819678, 825528, 831404, 837306, 843234, 849188, 855168, 861174, 867206, 873264,
     879349, 885460, 891597, 897761, 903951, 910167, 916410, 922680, 928976, 935298,
     941648, 948024, 954427, 960856, 967313, 973796, 980307, 986844, 993409
  >>

\* 10^6 * log2(n) for n = 1..128
Log2Tab ==
  <<
     0, 1000000, 1584963, 2000000, 2321928, 2584963, 2807355, 3000000, 3169925, 3321928,
     3459432, 3584963, 3700440, 3807355, 3906891, 4000000, 4087463, 4169925, 4247928, 4321928,
     4392317, 4459432, 4523562, 4584963, 4643856, 4700440, 4754888, 4807355, 4857981, 4906891,
     4954196, 5000000, 5044394, 5087463, 5129283, 5169925, 5209453, 5247928, 5285402, 5321928,
     5357552, 5392317, 5426265, 5459432, 5491853, 5523562, 5554589, 5584963, 5614710, 5643856,
     5672425, 5700440, 5727920, 5754888, 5781360, 5807355, 5832890, 5857981, 5882643, 5906891,
     5930737, 5954196, 5977280, 6000000, 6022368, 6044394, 6066089, 6087463, 6108524, 6129283,
     6149747, 6169925, 6189825, 6209453, 6228819, 6247928, 6266787, 6285402, 6303781, 6321928,
     6339850, 6357552, 6375039, 6392317, 6409391, 6426265, 6442943, 6459432, 6475733, 6491853,
     6507795, 6523562, 6539159, 6554589, 6569856, 6584963, 6599913, 6614710, 6629357, 6643856,
     6658211, 6672425, 6686501, 6700440, 6714246, 6727920, 6741467, 6754888, 6768184, 6781360,
     6794416, 6807355, 6820179, 6832890, 6845490, 6857981, 6870365, 6882643, 6894818, 6906891,
     6918863, 6930737, 6942515, 6954196, 6965784, 6977280, 6988685, 7000000
  >>

-----------------------------------------------------------------------------
(* types.ts                                                                *)

OCTAVE_BAND_FREQUENCIES == <<63, 125, 250, 500, 1000, 2000, 4000, 8000>>

Freqs == {OCTAVE_BAND_FREQUENCIES[i] : i \in 1..Len(OCTAVE_BAND_FREQUENCIES)}

\* an OctaveBandData object
Bands(a, b, c, d, e, f, g, h) ==
  (63 :> a) @@ (125 :> b) @@ (250 :> c) @@ (500 :> d) @@
  (1000 :> e) @@ (2000 :> f) @@ (4000 :> g) @@ (8000 :> h)

-----------------------------------------------------------------------------
(* nc-curves.ts                                                            *)

\* mutant: the 250 Hz level of NC-45 is typed with its digits swapped
NC_CURVES_Swapped ==
  << [rating |-> 15, values |-> Bands(47, 36, 29, 22, 17, 14, 12, 11)],
     [rating |-> 20, values |-> Bands(51, 40, 33, 26, 22, 19, 17, 16)],
     [rating |-> 25, values |-> Bands(54, 44, 37, 31, 27, 24, 22, 21)],
     [rating |-> 30, values |-> Bands(57, 48, 41, 35, 31, 29, 28, 27)],
     [rating |-> 35, values |-> Bands(60, 52, 45, 40, 36, 34, 33, 32)],
     [rating |-> 40, values |-> Bands(64, 56, 50, 45, 41, 39, 38, 37)],
     [rating |-> 45, values |-> Bands(67, 60, 45, 49, 46, 44, 43, 42)],
     [rating |-> 50, values |-> Bands(71, 64, 58, 54, 51, 49, 48, 47)],
     [rating |-> 55, values |-> Bands(74, 67, 62, 58, 56, 54, 53, 52)],
     [rating |-> 60, values |-> Bands(77, 71, 67, 63, 61, 59, 58, 57)],
     [rating |-> 65, values |-> Bands(80, 75, 71, 68, 66, 64, 63, 62)],
     [rating |-> 70, values |-> Bands(83, 79, 75, 72, 71, 70, 69, 68)] >>

NC_CURVES ==
  << [rating |-> 15, values |-> Bands(47, 36, 29, 22, 17, 14, 12, 11)],
     [rating |-> 20, values |-> Bands(51, 40, 33, 26, 22, 19, 17, 16)],
     [rating |-> 25, values |-> Bands(54, 44, 37, 31, 27, 24, 22, 21)],
     [rating |-> 30, values |-> Bands(57, 48, 41, 35, 31, 29, 28, 27)],
     [rating |-> 35, values |-> Bands(60, 52, 45, 40, 36, 34, 33, 32)],
     [rating |-> 40, values |-> Bands(64, 56, 50, 45, 41, 39, 38, 37)],
     [rating |-> 45, values |-> Bands(67, 60, 54, 49, 46, 44, 43, 42)],
     [rating |-> 50, values |-> Bands(71, 64, 58, 54, 51, 49, 48, 47)],
     [rating |-> 55, values |-> Bands(74, 67, 62, 58, 56, 54, 53, 52)],
     [rating |-> 60, values |-> Bands(77, 71, 67, 63, 61, 59, 58, 57)],
     [rating |-> 65, values |-> Bands(80, 75, 71, 68, 66, 64, 63, 62)],
     [rating |-> 70, values |-> Bands(83, 79, 75, 72, 71, 70, 69, 68)] >>

\* Array.prototype.find: the first of the indices that satisfy the predicate,
\* 0 (undefined) when there is none
FindIndex(hits) ==
  IF hits = {} THEN 0 ELSE CHOOSE i \in hits : \A j \in hits : i <= j

\* filter(...).pop(): the last of the indices that satisfy the predicate,
\* 0 (undefined) when there is none
FindLastIndex(hits) ==
  IF hits = {} THEN 0 ELSE CHOOSE i \in hits : \A j \in hits : i >= j

\* mutant: the lookup compares with <= instead of ===
getNCCurveAtMost(rating) ==
  LET i == FindIndex({j \in 1..Len(table) : table[j].rating <= rating})
  IN  IF i = 0 THEN None ELSE Some(table[i])

\* getNCCurve(rating): the curve (optional), undefined when not in the table
getNCCurve(rating) ==
  LET i == FindIndex({j \in 1..Len(table) : table[j].rating = rating})
  IN  IF i = 0 THEN None ELSE Some(table[i])

Abs(x) == IF x < 0 THEN -x ELSE x

\* NC_CURVES.reduce(...): the curve closest to the rating, the earliest on ties
RECURSIVE ClosestFrom(_, _, _)
ClosestFrom(i, prev, clampedRating) ==
  IF i > Len(table) THEN prev
  ELSE LET curr == table[i]
       IN  ClosestFrom(i + 1,
             IF Abs(curr.rating - clampedRating) < Abs(prev.rating - clampedRating)
               THEN curr ELSE prev,
             clampedRating)

\* mutant: the lower clamp is the second rating of the table
ClampRatingFrom20(rating) == Max2(20, Min2(70, rating))

\* Math.max(15, Math.min(70, rating))
ClampRating(rating) == Max2(15, Min2(70, rating))

\* mutant: the difference of the two curves is taken the wrong way round
LerpSwapped(lowerCurve, upperCurve, clampedRating, freq) ==
  RoundDiv(
    lowerCurve.values[freq] * (upperCurve.rating - lowerCurve.rating)
      + (clampedRating - lowerCurve.rating)
        * (lowerCurve.values[freq] - upperCurve.values[freq]),
    upperCurve.rating - lowerCurve.rating)

\* Math.round(lower + t * (upper - lower)) with
\* t = (clampedRating - lower.rating) / (upper.rating - lower.rating)
Lerp(lowerCurve, upperCurve, clampedRating, freq) ==
  RoundDiv(
    lowerCurve.values[freq] * (upperCurve.rating - lowerCurve.rating)
      + (clampedRating - lowerCurve.rating)
        * (upperCurve.values[freq] - lowerCurve.values[freq]),
    upperCurve.rating - lowerCurve.rating)

interpolateNCCurve(rating) ==
  LET clampedRating == ClampRating(rating)
      lo == FindLastIndex({j \in 1..Len(table) : table[j].rating <= clampedRating})
      hi == FindIndex({j \in 1..Len(table) : table[j].rating >= clampedRating})
  IN  IF lo = 0 \/ hi = 0
        THEN ClosestFrom(2, table[1], clampedRating).values
      ELSE LET lowerCurve == table[lo]
               upperCurve == table[hi]
           IN  IF lowerCurve.rating = upperCurve.rating
                 THEN lowerCurve.values
               ELSE [freq \in Freqs |->
                       Lerp(lowerCurve, upperCurve, clampedRating, freq)]

\* mutant: pop() removes the last curve of NC_CURVES itself
TableAfterPop(tbl) == SubSeq(tbl, 1, Len(tbl) - 1)

\* NC_CURVES after interpolateNCCurve has run: filter() builds a new array
\* and pop() shortens that new array; find() and reduce() only read, and the
\* returned object is a spread copy, so the array keeps every curve
TableAfterInterpolate(tbl) == tbl

\* mutant: a band that touches the curve counts as above it
RECURSIVE AllContainedBelow(_, _, _)
AllContainedBelow(octaveBands, c, k) ==
  IF k > Len(OCTAVE_BAND_FREQUENCIES) THEN TRUE
  ELSE IF octaveBands[OCTAVE_BAND_FREQUENCIES[k]] >= c.values[OCTAVE_BAND_FREQUENCIES[k]]
         THEN FALSE
       ELSE AllContainedBelow(octaveBands, c, k + 1)

\* the inner loop: every band at or below the curve
RECURSIVE AllContained(_, _, _)
AllContained(octaveBands, c, k) ==
  IF k > Len(OCTAVE_BAND_FREQUENCIES) THEN TRUE
  ELSE IF octaveBands[OCTAVE_BAND_FREQUENCIES[k]] > c.values[OCTAVE_BAND_FREQUENCIES[k]]
         THEN FALSE
       ELSE AllContained(octaveBands, c, k + 1)

\* mutant: past the last curve the rating goes on beyond the table
RECURSIVE RatingFromUnbounded(_, _)
RatingFromUnbounded(octaveBands, i) ==
  IF i > Len(table) THEN 75
  ELSE IF AllContained(octaveBands, table[i], 1) THEN table[i].rating
       ELSE RatingFromUnbounded(octaveBands, i + 1)

\* the outer loop, from curve i on
RECURSIVE RatingFrom(_, _)
RatingFrom(octaveBands, i) ==
  IF i > Len(table) THEN 70
  ELSE IF AllContained(octaveBands, table[i], 1) THEN table[i].rating
       ELSE RatingFrom(octaveBands, i + 1)

\* mutant: the loop over the curves starts at the second curve
calculateNCRatingFromSecond(octaveBands) == RatingFrom(octaveBands, 2)

calculateNCRating(octaveBands) == RatingFrom(octaveBands, 1)

-----------------------------------------------------------------------------
(* index.ts: pairwise conversions                                          *)

\* A_WEIGHTING in tenths of a dB
A_WEIGHTING ==
  (63 :> -262) @@ (125 :> -161) @@ (250 :> -86) @@ (500 :> -32) @@
  (1000 :> 0) @@ (2000 :> 12) @@ (4000 :> 10) @@ (8000 :> -11)

\* 10^6 * log2(n) for n = m * 2^j with m <= 128
RECURSIVE Log2Micro(_)
Log2Micro(n) ==
  IF n <= Len(Log2Tab) THEN Log2Tab[n] ELSE 1000000 + Log2Micro(n \div 2)

\* mutant: the 40 phons of one sone are left out
sonesToPhonsNoOffset(sones100) ==
  IF sones100 <= 0 THEN 0
  ELSE 10 * (Log2Micro(sones100) - Log2Micro(100))

\* sonesToPhons: sones in hundredths, phons in millionths
sonesToPhons(sones100) ==
  IF sones100 <= 0 THEN 0
  ELSE 40000000 + 10 * (Log2Micro(sones100) - Log2Micro(100))

\* phonsToSones: phons in tenths (>= 0), sones in millionths
phonsToSones(phons10) ==
  IF phons10 < 400
    THEN IF phons10 = 0 THEN 0 ELSE PowLow[phons10]
  ELSE LET q == (phons10 - 400) \div 100
           r == (phons10 - 400) % 100
           F == Pow2Frac[r + 1]
       IN  Pow(2, q) * (F \div 100) + (Pow(2, q) * (F % 100)) \div 100

\* mutant: only negative sones short-circuit to the exact 0
sonesToDBAStrict(sones100) ==
  IF sones100 < 0
    THEN [value |-> 0, confidence |-> "exact"]
  ELSE LET phons == sonesToPhons(sones100)
       IN  [value |-> RoundDiv(phons, 100000), confidence |-> "approximate"]

sonesToDBA(sones100) ==
  IF sones100 <= 0
    THEN [value |-> 0, confidence |-> "exact"]
  ELSE LET phons == sonesToPhons(sones100)
       IN  [value |-> RoundDiv(phons, 100000), confidence |-> "approximate"]

dbaToSones(dba10) ==
  IF dba10 <= 0
    THEN [value |-> 0, confidence |-> "exact"]
  ELSE LET sones == phonsToSones(dba10)
       IN  [value |-> RoundDiv(sones, 10000), confidence |-> "approximate"]

\* 10^8 * 10^(-k/100) for k >= 0: Math.pow(10, x / 10) relative to the loudest band
PressureSquared(k) ==
  IF k \div 100 > 8 THEN 0
  ELSE Pow10NegFrac[(k % 100) + 1] \div Pow(10, k \div 100)

RECURSIVE SumPressureSquared(_, _, _)
SumPressureSquared(aWeighted, top, k) ==
  IF k > Len(OCTAVE_BAND_FREQUENCIES) THEN 0
  ELSE PressureSquared(top - aWeighted[OCTAVE_BAND_FREQUENCIES[k]])
         + SumPressureSquared(aWeighted, top, k + 1)

\* octaveBandsToDBA: the A-weighted levels (tenths of a dB) are summed as
\* energies relative to the loudest of them, and 10*log10 of the sum is
\* rounded to a tenth
octaveBandsToDBA(octaveBands) ==
  LET aWeighted == [freq \in Freqs |-> 10 * octaveBands[freq] + A_WEIGHTING[freq]]
      top == CHOOSE x \in {aWeighted[f] : f \in Freqs} :
               \A f \in Freqs : aWeighted[f] <= x
      sumPressureSquared == SumPressureSquared(aWeighted, top, 1)
      tenths == Cardinality({j \in 1..Len(Log10Thr) : sumPressureSquared >= Log10Thr[j]})
  IN  [value |-> top + tenths, confidence |-> "exact"]

\* ncToDBA: nc in NC points, the value in tenths of a dB
ncToDBA(nc) ==
  LET dba == 10 * (nc + 6)
  IN  [value |-> dba, confidence |-> "approximate"]

\* mutant: an offset of 5 dB, the other end of the 5 to 7 dB rule of thumb
dbaToNCOffset5(dba10) ==
  LET nc == dba10 - 50
  IN  [value |-> RoundDiv(nc, 10), confidence |-> "approximate"]

dbaToNC(dba10) ==
  LET nc == dba10 - 60
  IN  [value |-> RoundDiv(nc, 10), confidence |-> "approximate"]

octaveBandsToNC(octaveBands) ==
  LET ncRating == calculateNCRating(octaveBands)
  IN  [value |-> ncRating, confidence |-> "exact"]

-----------------------------------------------------------------------------
(* index.ts: chained conversions                                           *)

\* mutant: the chain hands on the confidence of its last step
ncToSonesLastStep(nc) ==
  LET dbaResult == ncToDBA(nc)
      sonesResult == dbaToSones(dbaResult.value)
  IN  [value |-> sonesResult.value, confidence |-> sonesResult.confidence]

ncToSones(nc) ==
  LET dbaResult == ncToDBA(nc)
      sonesResult == dbaToSones(dbaResult.value)
  IN  [value |-> sonesResult.value, confidence |-> "estimated"]

sonesToNC(sones100) ==
  LET dbaResult == sonesToDBA(sones100)
      ncResult == dbaToNC(dbaResult.value)
  IN  [value |-> ncResult.value, confidence |-> "estimated"]

ncToOctaveBands(nc) == interpolateNCCurve(nc)

\* mutant: the sones are chained through the NC rating, not the dBA value
octaveBandsToSonesViaNC(octaveBands) ==
  LET ncResult == octaveBandsToNC(octaveBands)
      sonesResult == ncToSones(ncResult.value)
  IN  [value |-> sonesResult.value, confidence |-> "approximate"]

octaveBandsToSones(octaveBands) ==
  LET dbaResult == octaveBandsToDBA(octaveBands)
      sonesResult == dbaToSones(dbaResult.value)
  IN  [value |-> sonesResult.value, confidence |-> "approximate"]

-----------------------------------------------------------------------------
(* index.ts: convertSoundMeasurement                                       *)

\* const result: SoundMeasurement = { source: "calculated" }
EmptyResult ==
  [octaveBands |-> None, nc |-> None, dba |-> None, sones |-> None,
   source |-> "calculated"]

\* mutant: the octaveBands branch returns the curve of the rating it found
\* in place of the spectrum it was given
FromOctaveBandsAsCurve(octaveBands) ==
  [EmptyResult EXCEPT
     !.octaveBands = Some(ncToOctaveBands(octaveBandsToNC(octaveBands).value)),
     !.nc = Some(octaveBandsToNC(octaveBands).value),
     !.dba = Some(octaveBandsToDBA(octaveBands).value),
     !.sones = Some(octaveBandsToSones(octaveBands).value)]

\* the octaveBands branch
FromOctaveBands(octaveBands) ==
  [EmptyResult EXCEPT
     !.octaveBands = Some(octaveBands),
     !.nc = Some(octaveBandsToNC(octaveBands).value),
     !.dba = Some(octaveBandsToDBA(octaveBands).value),
     !.sones = Some(octaveBandsToSones(octaveBands).value)]

\* the nc branch
FromNC(nc) ==
  [EmptyResult EXCEPT
     !.nc = Some(nc),
     !.dba = Some(ncToDBA(nc).value),
     !.sones = Some(ncToSones(nc).value),
     !.octaveBands = Some(ncToOctaveBands(nc))]

\* mutant: the dba branch makes up a spectrum from the derived NC
FromDBAWithBands(dba10) ==
  [EmptyResult EXCEPT
     !.dba = Some(dba10),
     !.nc = Some(dbaToNC(dba10).value),
     !.sones = Some(dbaToSones(dba10).value),
     !.octaveBands = Some(ncToOctaveBands(dbaToNC(dba10).value))]

\* the dba branch
FromDBA(dba10) ==
  [EmptyResult EXCEPT
     !.dba = Some(dba10),
     !.nc = Some(dbaToNC(dba10).value),
     !.sones = Some(dbaToSones(dba10).value)]

\* the sones branch
FromSones(sones100) ==
  [EmptyResult EXCEPT
     !.sones = Some(sones100),
     !.dba = Some(sonesToDBA(sones100).value),
     !.nc = Some(sonesToNC(sones100).value)]

\* mutant: nc is looked at before octaveBands
convertSoundMeasurementNcFirst(inp) ==
  IF IsSet(inp.nc) THEN FromNC(Val(inp.nc))
  ELSE IF IsSet(inp.octaveBands) THEN FromOctaveBands(Val(inp.octaveBands))
  ELSE IF IsSet(inp.dba) THEN FromDBA(Val(inp.dba))
  ELSE IF IsSet(inp.sones) THEN FromSones(Val(inp.sones))
  ELSE EmptyResult

convertSoundMeasurement(inp) ==
  IF IsSet(inp.octaveBands) THEN FromOctaveBands(Val(inp.octaveBands))
  ELSE IF IsSet(inp.nc) THEN FromNC(Val(inp.nc))
  ELSE IF IsSet(inp.dba) THEN FromDBA(Val(inp.dba))
  ELSE IF IsSet(inp.sones) THEN FromSones(Val(inp.sones))
  ELSE EmptyResult

\* NC_CURVES after convertSoundMeasurement has run: only the nc branch gets
\* to interpolateNCCurve (through ncToOctaveBands)
TableAfterConvert(tbl, inp) ==
  IF ~IsSet(inp.octaveBands) /\ IsSet(inp.nc) THEN TableAfterInterpolate(tbl)
  ELSE tbl

-----------------------------------------------------------------------------
(* NCCurveChart.tsx                                                        *)

\* calculateContainingNCRating(userData): the rating of the curve the chart
\* draws bold, 70 when the data exceed every curve
calculateContainingNCRating(userData) ==
  LET i == FindIndex({j \in 1..Len(table) :
                       \A freq \in Freqs :
                         ~(userData[freq] > table[j].values[freq])})
  IN  IF i = 0 THEN 70 ELSE table[i].rating

-----------------------------------------------------------------------------
(* ScaleGuard: exceedsNC70 / getMaxNC70Excess                              *)

exceedsNC70(octaveBands) ==
  LET nc70 == Val(getNCCurve(70)).values
  IN  \E freq \in Freqs : octaveBands[freq] > nc70[freq]

RECURSIVE MaxExcessFrom(_, _, _, _)
MaxExcessFrom(octaveBands, nc70, k, maxExcess) ==
  IF k > Len(OCTAVE_BAND_FREQUENCIES) THEN maxExcess
  ELSE LET freq == OCTAVE_BAND_FREQUENCIES[k]
       IN  MaxExcessFrom(octaveBands, nc70, k + 1,
                         Max2(maxExcess, octaveBands[freq] - nc70[freq]))

getMaxNC70Excess(octaveBands) ==
  MaxExcessFrom(octaveBands, Val(getNCCurve(70)).values, 1, 0)

-----------------------------------------------------------------------------
(* The inputs the engine is called with.                                   *)

\* a standard curve moved by shift dB as a whole and by bump more at band k
Shifted(i, shift, k, bump) ==
  [freq \in Freqs |->
     NC_CURVES[i].values[freq] + shift
       + (IF freq = OCTAVE_BAND_FREQUENCIES[k] THEN bump ELSE 0)]

\* a spectrum entered up to band k only: the page fills the other bands with 0
Truncated(i, k) ==
  [freq \in Freqs |->
     IF \E j \in 1..k : OCTAVE_BAND_FREQUENCIES[j] = freq
       THEN NC_CURVES[i].values[freq] ELSE 0]

\* sound power level data read as sound pressure: far above the NC-70 curve
SoundPowerSample == Bands(90, 88, 93, 87, 86, 82, 83, 76)

StandardCurves == {NC_CURVES[i].values : i \in 1..Len(NC_CURVES)}

Spectra ==
  {Shifted(i, s, k, b) : i \in 1..Len(NC_CURVES), s \in -MaxShift..MaxShift,
                         k \in 1..Len(OCTAVE_BAND_FREQUENCIES), b \in 0..MaxBump}
    \cup {Truncated(i, k) : i \in 1..Len(NC_CURVES),
                            k \in 0..Len(OCTAVE_BAND_FREQUENCIES)}
    \cup {SoundPowerSample}

NCInputs == (15 - Margin)..(70 + Margin)

DBAInputs == (-10 * Margin)..(10 * MaxDBA)

SonesInputs ==
  {m * Pow(2, j) : m \in 0..MaxMant, j \in 0..MaxExp} \cup {-m : m \in 1..Margin}

Opt(S) == {None} \cup {Some(v) : v \in S}

Measurement(octaveBands, nc, dba, sones) ==
  [octaveBands |-> octaveBands, nc |-> nc, dba |-> dba, sones |-> sones]

\* one field set, over the whole of its input set
SingleFieldInputs ==
  {Measurement(Some(b), None, None, None) : b \in Spectra}
    \cup {Measurement(None, Some(n), None, None) : n \in NCInputs}
    \cup {Measurement(None, None, Some(d), None) : d \in DBAInputs}
    \cup {Measurement(None, None, None, Some(s)) : s \in SonesInputs}

\* any combination of set and unset fields, with values that disagree
MixedInputs ==
  {Measurement(b, n, d, s) :
     b \in Opt(StandardCurves \cup {SoundPowerSample}),
     n \in Opt({15 - Margin, 33, 45, 70 + Margin}),
     d \in Opt({0, 355, 510, 10 * MaxDBA}),
     s \in Opt({0, 50, 100, MaxMant * Pow(2, MaxExp)})}

\* no ConversionResult returned yet
NoConversionResult == [value |-> 0, confidence |-> "none"]

\* useState<SoundMeasurement | null>(null): no measurement returned yet
NoResult ==
  [octaveBands |-> None, nc |-> None, dba |-> None, sones |-> None,
   source |-> "none"]

\* the second caller has not called yet
NoCall ==
  [called |-> "none", nc |-> None, octaveBands |-> None, found |-> None,
   curve |-> None, num |-> 0]

\* nothing has been called: the module is loaded, no value returned
Fresh ==
  /\ called = "none"
  /\ result = NoResult
  /\ conv = NoConversionResult
  /\ curve = None
  /\ num = 0
  /\ flag = FALSE
  /\ table = NC_CURVES
  /\ other = NoCall

\* the ComplianceChecker before a measurement and a room type are there
CheckerFresh ==
  /\ equipmentNC = None
  /\ selectedRoomId = ""
  /\ compliance = None

\* the DocumentUploader as it is first rendered
UploaderFresh ==
  /\ uploadState = "idle"
  /\ parseResult = None
  /\ showPasteInput = FALSE
  /\ pasteText = <<>>
  /\ usedAI = FALSE
  /\ selectedRowIndex = 0
  /\ showRowSelector = FALSE
  /\ hasApiKey = FALSE
  /\ inFlight = <<>>
  /\ latest = TRUE

\* the page as it is first rendered
PageFresh ==
  /\ inputMode = "octave"
  /\ pageOctaveBands = None
  /\ savedData = <<>>
  /\ selectedDataId = None
  /\ uuids = 0
  /\ inputValue = None
  /\ editingId = None
  /\ editingName = <<>>

Init ==
  /\ input \in SingleFieldInputs \cup MixedInputs
  /\ Fresh
  /\ CheckerFresh
  /\ UploaderFresh
  /\ PageFresh

-----------------------------------------------------------------------------
(* One action per engine function called on the input.                     *)

Convert ==
  /\ called = "none"
  /\ called' = "convertSoundMeasurement"
  /\ result' = convertSoundMeasurement(input)
  /\ UNCHANGED <<input, conv, curve, num, flag>>
  /\ table' = TableAfterConvert(table, input)
  /\ UNCHANGED other
  /\ UNCHANGED outside

Classify ==
  /\ called = "none"
  /\ IsSet(input.octaveBands)
  /\ called' = "calculateNCRating"
  /\ num' = calculateNCRating(Val(input.octaveBands))
  /\ UNCHANGED <<input, result, conv, curve, flag>>
  /\ UNCHANGED shared
  /\ UNCHANGED outside

Interpolate ==
  /\ called = "none"
  /\ IsSet(input.nc)
  /\ called' = "interpolateNCCurve"
  /\ curve' = Some(interpolateNCCurve(Val(input.nc)))
  /\ UNCHANGED <<input, result, conv, num, flag>>
  /\ table' = TableAfterInterpolate(table)
  /\ UNCHANGED other
  /\ UNCHANGED outside

NcToSones ==
  /\ called = "none"
  /\ IsSet(input.nc)
  /\ called' = "ncToSones"
  /\ conv' = ncToSones(Val(input.nc))
  /\ UNCHANGED <<input, result, curve, num, flag>>
  /\ UNCHANGED shared
  /\ UNCHANGED outside

SonesToNC ==
  /\ called = "none"
  /\ IsSet(input.sones)
  /\ called' = "sonesToNC"
  /\ conv' = sonesToNC(Val(input.sones))
  /\ UNCHANGED <<input, result, curve, num, flag>>
  /\ UNCHANGED shared
  /\ UNCHANGED outside

OctaveBandsToSones ==
  /\ called = "none"
  /\ IsSet(input.octaveBands)
  /\ called' = "octaveBandsToSones"
  /\ conv' = octaveBandsToSones(Val(input.octaveBands))
  /\ UNCHANGED <<input, result, curve, num, flag>>
  /\ UNCHANGED shared
  /\ UNCHANGED outside

ExceedsNC70 ==
  /\ called = "none"
  /\ IsSet(input.octaveBands)
  /\ called' = "exceedsNC70"
  /\ flag' = exceedsNC70(Val(input.octaveBands))
  /\ UNCHANGED <<input, result, conv, curve, num>>
  /\ UNCHANGED shared
  /\ UNCHANGED outside

GetMaxNC70Excess ==
  /\ called = "none"
  /\ IsSet(input.octaveBands)
  /\ called' = "getMaxNC70Excess"
  /\ num' = getMaxNC70Excess(Val(input.octaveBands))
  /\ UNCHANGED <<input, result, conv, curve, flag>>
  /\ UNCHANGED shared
  /\ UNCHANGED outside

NcToDBA ==
  /\ called = "none"
  /\ IsSet(input.nc)
  /\ called' = "ncToDBA"
  /\ conv' = ncToDBA(Val(input.nc))
  /\ UNCHANGED <<input, result, curve, num, flag>>
  /\ UNCHANGED shared
  /\ UNCHANGED outside

DbaToNC ==
  /\ called = "none"
  /\ IsSet(input.dba)
  /\ called' = "dbaToNC"
  /\ conv' = dbaToNC(Val(input.dba))
  /\ UNCHANGED <<input, result, curve, num, flag>>
  /\ UNCHANGED shared
  /\ UNCHANGED outside

SonesToDBA ==
  /\ called = "none"
  /\ IsSet(input.sones)
  /\ called' = "sonesToDBA"
  /\ conv' = sonesToDBA(Val(input.sones))
  /\ UNCHANGED <<input, result, curve, num, flag>>
  /\ UNCHANGED shared
  /\ UNCHANGED outside

DbaToSones ==
  /\ called = "none"
  /\ IsSet(input.dba)
  /\ called' = "dbaToSones"
  /\ conv' = dbaToSones(Val(input.dba))
  /\ UNCHANGED <<input, result, curve, num, flag>>
  /\ UNCHANGED shared
  /\ UNCHANGED outside

SonesToPhons ==
  /\ called = "none"
  /\ IsSet(input.sones)
  /\ called' = "sonesToPhons"
  /\ num' = sonesToPhons(Val(input.sones))
  /\ UNCHANGED <<input, result, conv, curve, flag>>
  /\ UNCHANGED shared
  /\ UNCHANGED outside

\* phonsToSones on a loudness level of 0 phons or more; the engine takes the
\* dBA value for the phons
PhonsToSones ==
  /\ called = "none"
  /\ IsSet(input.dba)
  /\ Val(input.dba) >= 0
  /\ called' = "phonsToSones"
  /\ num' = phonsToSones(Val(input.dba))
  /\ UNCHANGED <<input, result, conv, curve, flag>>
  /\ UNCHANGED shared
  /\ UNCHANGED outside

Next ==
  \/ Convert
  \/ Classify
  \/ Interpolate
  \/ NcToSones
  \/ SonesToNC
  \/ OctaveBandsToSones
  \/ ExceedsNC70
  \/ GetMaxNC70Excess
  \/ NcToDBA
  \/ DbaToNC
  \/ SonesToDBA
  \/ DbaToSones
  \/ SonesToPhons
  \/ PhonsToSones

Spec == Init /\ [][Next]_vars

-----------------------------------------------------------------------------
(* Two callers of the engine.  A call runs to completion before the next   *)
(* one starts (one JavaScript thread), so an interleaving is an order of   *)
(* whole calls.  The first caller calls once; the second caller calls      *)
(* getNCCurve, interpolateNCCurve and calculateNCRating any number of      *)
(* times, before and after the first caller's call.                        *)

CallerInputs ==
  {Measurement(b, n, d, s) :
     b \in Opt({NC_CURVES[5].values, SoundPowerSample}),
     n \in Opt({15 - Margin, 33}),
     d \in Opt({355}),
     s \in Opt({50})}

\* the ratings and spectra the second caller asks about
OtherRatings == {15 - Margin, 15, 33, 45, 70, 70 + Margin}

OtherSpectra == {NC_CURVES[5].values, SoundPowerSample}

InitCallers ==
  /\ input \in CallerInputs
  /\ Fresh
  /\ CheckerFresh
  /\ UploaderFresh
  /\ PageFresh

OtherGetNCCurve(rating) ==
  /\ other' = [NoCall EXCEPT !.called = "getNCCurve",
                             !.nc = Some(rating),
                             !.found = getNCCurve(rating)]
  /\ UNCHANGED <<input, called, result, conv, curve, num, flag, table>>
  /\ UNCHANGED outside

OtherInterpolate(rating) ==
  /\ other' = [NoCall EXCEPT !.called = "interpolateNCCurve",
                             !.nc = Some(rating),
                             !.curve = Some(interpolateNCCurve(rating))]
  /\ table' = TableAfterInterpolate(table)
  /\ UNCHANGED <<input, called, result, conv, curve, num, flag>>
  /\ UNCHANGED outside

OtherClassify(octaveBands) ==
  /\ other' = [NoCall EXCEPT !.called = "calculateNCRating",
                             !.octaveBands = Some(octaveBands),
                             !.num = calculateNCRating(octaveBands)]
  /\ UNCHANGED <<input, called, result, conv, curve, num, flag, table>>
  /\ UNCHANGED outside

NextCallers ==
  \/ Next
  \/ \E rating \in OtherRatings : OtherGetNCCurve(rating)
  \/ \E rating \in OtherRatings : OtherInterpolate(rating)
  \/ \E octaveBands \in OtherSpectra : OtherClassify(octaveBands)

SpecCallers == InitCallers /\ [][NextCallers]_vars

-----------------------------------------------------------------------------
(* ASHRAE room types and the ComplianceChecker component.                  *)

\* ROOM_TYPES: id, ncMin and ncMax of every room type (name, category and
\* description are display text)
ROOM_TYPES ==
  << [id |-> "bedroom", ncMin |-> 25, ncMax |-> 30],
     [id |-> "living-room", ncMin |-> 30, ncMax |-> 35],
     [id |-> "kitchen", ncMin |-> 35, ncMax |-> 45],
     [id |-> "bathroom", ncMin |-> 35, ncMax |-> 45],
     [id |-> "private-office", ncMin |-> 30, ncMax |-> 35],
     [id |-> "open-office", ncMin |-> 40, ncMax |-> 45],
     [id |-> "reception", ncMin |-> 40, ncMax |-> 45],
     [id |-> "corridor", ncMin |-> 40, ncMax |-> 45],
     [id |-> "small-conference", ncMin |-> 25, ncMax |-> 30],
     [id |-> "large-conference", ncMin |-> 25, ncMax |-> 30],
     [id |-> "boardroom", ncMin |-> 20, ncMax |-> 25],
     [id |-> "teleconference", ncMin |-> 20, ncMax |-> 25],
     [id |-> "classroom", ncMin |-> 30, ncMax |-> 35],
     [id |-> "lecture-hall", ncMin |-> 25, ncMax |-> 30],
     [id |-> "library", ncMin |-> 30, ncMax |-> 35],
     [id |-> "music-room", ncMin |-> 25, ncMax |-> 30],
     [id |-> "gymnasium", ncMin |-> 45, ncMax |-> 50],
     [id |-> "patient-room", ncMin |-> 25, ncMax |-> 30],
     [id |-> "operating-room", ncMin |-> 35, ncMax |-> 40],
     [id |-> "exam-room", ncMin |-> 30, ncMax |-> 35],
     [id |-> "waiting-room", ncMin |-> 40, ncMax |-> 45],
     [id |-> "icu", ncMin |-> 25, ncMax |-> 30],
     [id |-> "hotel-room", ncMin |-> 30, ncMax |-> 35],
     [id |-> "hotel-luxury", ncMin |-> 25, ncMax |-> 30],
     [id |-> "hotel-lobby", ncMin |-> 40, ncMax |-> 45],
     [id |-> "restaurant", ncMin |-> 35, ncMax |-> 40],
     [id |-> "restaurant-casual", ncMin |-> 40, ncMax |-> 45],
     [id |-> "bar-lounge", ncMin |-> 40, ncMax |-> 50],
     [id |-> "retail-store", ncMin |-> 40, ncMax |-> 45],
     [id |-> "supermarket", ncMin |-> 45, ncMax |-> 50],
     [id |-> "bank", ncMin |-> 40, ncMax |-> 45],
     [id |-> "sanctuary", ncMin |-> 25, ncMax |-> 30],
     [id |-> "fellowship-hall", ncMin |-> 35, ncMax |-> 40],
     [id |-> "courtroom", ncMin |-> 25, ncMax |-> 30],
     [id |-> "concert-hall", ncMin |-> 15, ncMax |-> 20],
     [id |-> "theater", ncMin |-> 20, ncMax |-> 25],
     [id |-> "movie-theater", ncMin |-> 30, ncMax |-> 35],
     [id |-> "recording-studio", ncMin |-> 15, ncMax |-> 20],
     [id |-> "broadcast-studio", ncMin |-> 20, ncMax |-> 25],
     [id |-> "factory-light", ncMin |-> 50, ncMax |-> 60],
     [id |-> "factory-heavy", ncMin |-> 60, ncMax |-> 70],
     [id |-> "warehouse", ncMin |-> 55, ncMax |-> 65],
     [id |-> "mechanical-room", ncMin |-> 60, ncMax |-> 70] >>

RoomIds == {ROOM_TYPES[i].id : i \in 1..Len(ROOM_TYPES)}

\* ROOM_TYPES.find((room) => room.id === id)
getRoomTypeById(id) ==
  LET i == FindIndex({j \in 1..Len(ROOM_TYPES) : ROOM_TYPES[j].id = id})
  IN  IF i = 0 THEN None ELSE Some(ROOM_TYPES[i])

\* mutant: three points over the target still count as borderline
checkComplianceBorderline3(nc, roomType) ==
  LET margin == roomType.ncMax - nc
      exceedance == nc - roomType.ncMax
      verdict ==
        IF nc <= roomType.ncMin
          THEN [status |-> "excellent", compliant |-> TRUE,
                message |-> <<"Exceeds requirements by", roomType.ncMin - nc>>]
        ELSE IF nc <= roomType.ncMax
          THEN [status |-> "good", compliant |-> TRUE,
                message |-> <<"Meets requirements with margin", margin>>]
        ELSE IF exceedance <= 3
          THEN [status |-> "marginal", compliant |-> FALSE,
                message |-> <<"Exceeds target (borderline) by", exceedance>>]
        ELSE [status |-> "fail", compliant |-> FALSE,
              message |-> <<"Exceeds target by", exceedance>>]
  IN  [compliant |-> verdict.compliant,
       equipmentNC |-> nc,
       targetNCMin |-> roomType.ncMin,
       targetNCMax |-> roomType.ncMax,
       margin |-> margin,
       status |-> verdict.status,
       message |-> verdict.message]

\* checkCompliance(equipmentNC, roomType); the message is its text and the
\* number put into it
checkCompliance(nc, roomType) ==
  LET margin == roomType.ncMax - nc
      exceedance == nc - roomType.ncMax
      verdict ==
        IF nc <= roomType.ncMin
          THEN [status |-> "excellent", compliant |-> TRUE,
                message |-> <<"Exceeds requirements by", roomType.ncMin - nc>>]
        ELSE IF nc <= roomType.ncMax
          THEN [status |-> "good", compliant |-> TRUE,
                message |-> <<"Meets requirements with margin", margin>>]
        ELSE IF exceedance <= 2
          THEN [status |-> "marginal", compliant |-> FALSE,
                message |-> <<"Exceeds target (borderline) by", exceedance>>]
        ELSE [status |-> "fail", compliant |-> FALSE,
              message |-> <<"Exceeds target by", exceedance>>]
  IN  [compliant |-> verdict.compliant,
       equipmentNC |-> nc,
       targetNCMin |-> roomType.ncMin,
       targetNCMax |-> roomType.ncMax,
       margin |-> margin,
       status |-> verdict.status,
       message |-> verdict.message]

\* mutant: a room whose ncMax equals the equipment NC is left out
getCompliantRoomTypesBelowMax(nc) ==
  SelectSeq(ROOM_TYPES, LAMBDA room : nc < room.ncMax)

\* getCompliantRoomTypes(equipmentNC): ROOM_TYPES.filter(...)
getCompliantRoomTypes(nc) ==
  SelectSeq(ROOM_TYPES, LAMBDA room : nc <= room.ncMax)

\* the two useMemo values of the component: selectedRoom, then compliance
Memoized(nc, roomId) ==
  LET selectedRoom == IF roomId # "" THEN getRoomTypeById(roomId) ELSE None
  IN  IF ~IsSet(nc) \/ ~IsSet(selectedRoom) THEN None
      ELSE Some(checkCompliance(Val(nc), Val(selectedRoom)))

\* the integer NC values the page hands to the component
EquipmentNCs == NCInputs

InitCompliance ==
  /\ input = Measurement(None, None, None, None)
  /\ Fresh
  /\ equipmentNC \in Opt(EquipmentNCs)
  /\ selectedRoomId = ""
  /\ compliance = None
  /\ UploaderFresh
  /\ PageFresh

\* handleRoomChange(roomId) and the render that follows it
handleRoomChange(roomId) ==
  /\ selectedRoomId' = roomId
  /\ compliance' = Memoized(equipmentNC, roomId)
  /\ UNCHANGED equipmentNC
  /\ UNCHANGED <<engine, uploader, page>>

\* the page renders the component with another equipmentNC
EquipmentNCChanged(nc) ==
  /\ nc # equipmentNC
  /\ equipmentNC' = nc
  /\ compliance' = Memoized(nc, selectedRoomId)
  /\ UNCHANGED selectedRoomId
  /\ UNCHANGED <<engine, uploader, page>>

NextCompliance ==
  \/ \E roomId \in RoomIds : handleRoomChange(roomId)
  \/ \E nc \in Opt(EquipmentNCs) : EquipmentNCChanged(nc)

SpecCompliance == InitCompliance /\ [][NextCompliance]_vars

-----------------------------------------------------------------------------
(* Pasted spec-sheet text: parseSpecSheetText, parseText and handlePaste.  *)
(* A text is a sequence of characters.                                     *)

\* how many items the page saves in the model
MaxSaved == 2

Digits == <<"0", "1", "2", "3", "4", "5", "6", "7", "8", "9">>

Letters ==
  {"a", "b", "c", "d", "e", "f", "g", "h", "i", "j", "k", "l", "m",
   "n", "o", "p", "q", "r", "s", "t", "u", "v", "w", "x", "y", "z",
   "A", "B", "C", "D", "E", "F", "G", "H", "I", "J", "K", "L", "M",
   "N", "O", "P", "Q", "R", "S", "T", "U", "V", "W", "X", "Y", "Z"}

\* the class \d
IsDigit(c) == \E i \in 1..Len(Digits) : Digits[i] = c

DigitValue(c) == (CHOOSE i \in 1..Len(Digits) : Digits[i] = c) - 1

\* the class \w
IsWordChar(c) == IsDigit(c) \/ c \in Letters \/ c = "_"

\* the class \s
IsSpace(c) == c \in {" ", "\t", "\n", "\r"}

\* replace(/\t/g, " ")
ReplaceTabs(text) ==
  [i \in 1..Len(text) |-> IF text[i] = "\t" THEN " " ELSE text[i]]

\* replace(/\s+/g, " "): every run of white space becomes one space
RECURSIVE CollapseFrom(_, _, _)
CollapseFrom(text, i, out) ==
  IF i > Len(text) THEN out
  ELSE IF ~IsSpace(text[i]) THEN CollapseFrom(text, i + 1, Append(out, text[i]))
  ELSE IF i > 1 /\ IsSpace(text[i - 1]) THEN CollapseFrom(text, i + 1, out)
  ELSE CollapseFrom(text, i + 1, Append(out, " "))

\* trim()
Trim(text) ==
  LET first == FindIndex({i \in 1..Len(text) : ~IsSpace(text[i])})
      last == FindLastIndex({i \in 1..Len(text) : ~IsSpace(text[i])})
  IN  IF first = 0 THEN <<>> ELSE SubSeq(text, first, last)

\* parseInt of the digits text[i..i+len-1]
RECURSIVE ParseIntFrom(_, _, _, _)
ParseIntFrom(text, i, len, acc) ==
  IF len = 0 THEN acc
  ELSE ParseIntFrom(text, i + 1, len - 1, 10 * acc + DigitValue(text[i]))

\* the length of the match of /\b(\d{1,3})\b/ that starts at position i, 0 when
\* there is none: a word boundary in front, then the longest of three, two or
\* one digits that ends at a word boundary
MatchLength(text, i) ==
  LET fits(len) ==
        /\ i + len - 1 <= Len(text)
        /\ \A k \in i..(i + len - 1) : IsDigit(text[k])
        /\ (i + len > Len(text) \/ ~IsWordChar(text[i + len]))
  IN  IF ~IsDigit(text[i]) \/ (i > 1 /\ IsWordChar(text[i - 1])) THEN 0
      ELSE IF fits(3) THEN 3
      ELSE IF fits(2) THEN 2
      ELSE IF fits(1) THEN 1
      ELSE 0

\* mutant: a level of exactly 10 dB is dropped
ReasonableDBAbove10(n) == n > 10 /\ n <= 100

\* if (num >= 10 && num <= 100)
ReasonableDB(n) == n >= 10 /\ n <= 100

\* the while loop over numbersPattern.exec(cleaned)
RECURSIVE NumbersFrom(_, _, _)
NumbersFrom(cleaned, i, numbers) ==
  IF i > Len(cleaned) THEN numbers
  ELSE LET len == MatchLength(cleaned, i)
       IN  IF len = 0 THEN NumbersFrom(cleaned, i + 1, numbers)
           ELSE LET n == ParseIntFrom(cleaned, i, len, 0)
                IN  NumbersFrom(cleaned, i + len,
                      IF ReasonableDB(n) THEN Append(numbers, n) ELSE numbers)

\* isLikelyOctaveBandSequence(values)
isLikelyOctaveBandSequence(values) ==
  IF Len(values) # 8 THEN FALSE
  ELSE IF values[1] < values[8] THEN FALSE
  ELSE Cardinality({i \in 2..Len(values) : values[i] > values[i - 1] + 5}) <= 2

\* { hz63: sequence[0], ..., hz8000: sequence[7] }
OctaveBandsOf(sequence) ==
  [hz63 |-> sequence[1], hz125 |-> sequence[2], hz250 |-> sequence[3],
   hz500 |-> sequence[4], hz1000 |-> sequence[5], hz2000 |-> sequence[6],
   hz4000 |-> sequence[7], hz8000 |-> sequence[8]]

\* parseSpecSheetText(text): the octave band values (optional), null when the
\* text does not look like a row of a spec sheet
parseSpecSheetText(text) ==
  LET cleaned == Trim(CollapseFrom(ReplaceTabs(text), 1, <<>>))
      numbers == NumbersFrom(cleaned, 1, <<>>)
      likely == {i \in 1..(Len(numbers) - 7) :
                   isLikelyOctaveBandSequence(SubSeq(numbers, i, i + 7))}
  IN  IF Len(numbers) = 8 THEN Some(OctaveBandsOf(numbers))
      ELSE IF Len(numbers) > 8 /\ likely # {}
        THEN Some(OctaveBandsOf(
               SubSeq(numbers, FindIndex(likely), FindIndex(likely) + 7)))
      ELSE None

\* an ExtractedSoundData (the time of extraction is left out)
Extracted(fileName, confidence, bands) ==
  [source |-> [fileName |-> fileName, confidence |-> confidence],
   octaveBands |-> bands, ncRating |-> None, dba |-> None, sones |-> None]

\* extractAllSoundData(text, fileName) on the texts of PasteTexts.  Each of
\* its patterns needs a rating word (NC, dBA, sones) or, for octave bands,
\* four frequency labels (63, 125, ..., 8000 as numbers of the text) each in
\* front of a value; the texts of PasteTexts hold neither, so nothing is
\* found and the confidence is "low"
extractAllSoundData(text, fileName) == Extracted(fileName, "low", None)

\* parseText(text, sourceName)
parseText(text, sourceName) ==
  IF Trim(text) = <<>>
    THEN [success |-> FALSE, data |-> <<>>,
          errors |-> <<"No text provided.">>, warnings |-> <<>>]
  ELSE LET soundData == extractAllSoundData(text, sourceName)
       IN  IF ~IsSet(soundData.octaveBands) /\ ~IsSet(soundData.ncRating)
              /\ ~IsSet(soundData.dba) /\ ~IsSet(soundData.sones)
             THEN [success |-> FALSE, data |-> <<>>, errors |-> <<>>,
                   warnings |->
                     <<"No sound data patterns recognized in the text.">>]
           ELSE [success |-> TRUE, data |-> <<soundData>>, errors |-> <<>>,
                 warnings |-> <<>>]

\* the decimal numeral of a number, as it is typed
RECURSIVE Numeral(_)
Numeral(n) ==
  IF n < 10 THEN <<Digits[n + 1]>>
  ELSE Numeral(n \div 10) \o <<Digits[(n % 10) + 1]>>

\* the tokens of a row, each followed by the unit, with the separator between
RECURSIVE RowFrom(_, _, _, _)
RowFrom(tokens, i, unit, sep) ==
  IF i > Len(tokens) THEN <<>>
  ELSE tokens[i] \o unit \o (IF i < Len(tokens) THEN sep ELSE <<>>)
         \o RowFrom(tokens, i + 1, unit, sep)

Numerals(values) == [i \in 1..Len(values) |-> Numeral(values[i])]

\* "58 50 43 38 35 33 32 31", the documented test data
DocumentedSample == <<58, 50, 43, 38, 35, 33, 32, 31>>

\* the rows of eight levels that are pasted
PasteRows ==
  {DocumentedSample,
   <<100, 90, 80, 70, 60, 40, 20, 10>>,
   <<31, 32, 33, 35, 38, 43, 50, 58>>,
   <<90, 88, 93, 87, 86, 82, 83, 76>>}

\* the ways a row is written: what comes first, the unit after each level,
\* the separator, what comes last
PasteStyles ==
  {[lead |-> <<>>, unit |-> <<>>, sep |-> <<" ">>, trail |-> <<>>],
   [lead |-> <<>>, unit |-> <<>>, sep |-> <<"\t">>, trail |-> <<>>],
   [lead |-> <<>>, unit |-> <<>>, sep |-> <<"\n">>, trail |-> <<"\n">>],
   [lead |-> <<>>, unit |-> <<>>, sep |-> <<",", " ">>, trail |-> <<>>],
   [lead |-> <<" ", " ">>, unit |-> <<>>, sep |-> <<" ", " ">>, trail |-> <<" ">>],
   [lead |-> <<>>, unit |-> <<" ", "d", "B">>, sep |-> <<" ">>, trail |-> <<>>],
   [lead |-> <<>>, unit |-> <<"d", "B">>, sep |-> <<" ">>, trail |-> <<>>]}

\* rows that are not eight levels of 10..100: seven levels, nine levels, a
\* level out of range, a level with leading zeros, a level with a decimal
OddRows ==
  {Numerals(SubSeq(DocumentedSample, 1, 7)),
   Numerals(DocumentedSample \o <<30>>),
   Numerals(<<20>> \o DocumentedSample),
   Numerals(<<10, 20, 30, 40, 50, 60, 70, 80, 90>>),
   Numerals(SubSeq(DocumentedSample, 1, 7) \o <<5>>),
   Numerals(<<101>> \o SubSeq(DocumentedSample, 2, 8)),
   Numerals(<<120>> \o DocumentedSample),
   <<<<"0", "5", "8">>>> \o Numerals(SubSeq(DocumentedSample, 2, 8)),
   <<<<"0", "0", "5", "8">>>> \o Numerals(SubSeq(DocumentedSample, 2, 8)),
   <<<<"5", "8", ".", "5">>>> \o Numerals(SubSeq(DocumentedSample, 2, 8))}

PasteTexts ==
  {s.lead \o RowFrom(Numerals(row), 1, s.unit, s.sep) \o s.trail :
     row \in PasteRows, s \in PasteStyles}
    \cup {RowFrom(row, 1, <<>>, <<" ">>) : row \in OddRows}
    \cup {<<" ", "\n">>}

InitPaste ==
  /\ input = Measurement(None, None, None, None)
  /\ Fresh
  /\ CheckerFresh
  /\ UploaderFresh
  /\ PageFresh

\* onClick={() => setShowPasteInput(true)} and onClick={() =>
\* setShowPasteInput(false)}
setShowPasteInput(show) ==
  /\ showPasteInput # show
  /\ showPasteInput' = show
  /\ UNCHANGED <<uploadState, parseResult, pasteText, usedAI, selectedRowIndex>>
  /\ UNCHANGED <<showRowSelector, hasApiKey, inFlight, latest>>
  /\ UNCHANGED <<engine, checker, page>>

\* onChange={(e) => setPasteText(e.target.value)}
setPasteText(text) ==
  /\ showPasteInput
  /\ pasteText' = text
  /\ UNCHANGED <<uploadState, parseResult, showPasteInput, usedAI,
                 selectedRowIndex>>
  /\ UNCHANGED <<showRowSelector, hasApiKey, inFlight, latest>>
  /\ UNCHANGED <<engine, checker, page>>

\* the page's handleDataExtracted(data) as the useCallback made when
\* savedData had savedLength items, and the render that follows it: the
\* ComplianceChecker gets exceeds70 ? 71 : result?.nc.  Every hz field of the
\* extracted data is set, so no ?? 0 applies
handleDataExtractedAt(data, savedLength) ==
  IF IsSet(data.octaveBands)
    THEN LET b == Val(data.octaveBands)
             bands == Bands(b.hz63, b.hz125, b.hz250, b.hz500,
                            b.hz1000, b.hz2000, b.hz4000, b.hz8000)
             newItem == [id |-> uuids + 1,
                         name |-> <<"Import", savedLength + 1>>,
                         octaveBands |-> bands,
                         source |-> data.source.fileName]
             measurement == Measurement(Some(bands), None, None, None)
             converted == convertSoundMeasurement(measurement)
             shown == IF exceedsNC70(bands) THEN Some(71) ELSE converted.nc
         IN  /\ uuids' = uuids + 1
             /\ savedData' = Append(savedData, newItem)
             /\ selectedDataId' = Some(newItem.id)
             /\ pageOctaveBands' = Some(bands)
             /\ inputMode' = "octave"
             /\ input' = measurement
             /\ called' = "convertSoundMeasurement"
             /\ result' = converted
             /\ table' = TableAfterConvert(table, measurement)
             /\ equipmentNC' = shown
             /\ compliance' = Memoized(shown, selectedRoomId)
             /\ UNCHANGED <<conv, curve, num, flag, other, selectedRoomId>>
             /\ UNCHANGED <<inputValue, editingId, editingName>>
  ELSE UNCHANGED <<engine, checker, page>>

\* the page's handleDataExtracted(data) of the current render
handleDataExtracted(data) == handleDataExtractedAt(data, Len(savedData))

\* an extraction starts: the onDrop calls that still wait are no longer the
\* last one started
Superseded(calls) ==
  [i \in 1..Len(calls) |-> [calls[i] EXCEPT !.superseded = TRUE]]

\* the onDrop calls in flight whose first row will be saved by the page
Reserved ==
  Cardinality({i \in 1..Len(inFlight) : inFlight[i].saves})

\* handlePaste(), with processExtractedData and the page's handler it calls
handlePaste ==
  /\ showPasteInput
  /\ Trim(pasteText) # <<>>
  /\ Len(savedData) + Reserved < MaxSaved
  /\ usedAI' = FALSE
  /\ selectedRowIndex' = 0
  /\ pasteText' = <<>>
  /\ showPasteInput' = FALSE
  /\ inFlight' = Superseded(inFlight)
  /\ latest' = TRUE
  /\ UNCHANGED <<showRowSelector, hasApiKey>>
  /\ LET specSheetData == parseSpecSheetText(pasteText)
     IN  IF IsSet(specSheetData)
           THEN LET extractedData ==
                      Extracted("pasted text", "high", specSheetData)
                IN  /\ parseResult' = Some([success |-> TRUE,
                                            data |-> <<extractedData>>,
                                            errors |-> <<>>,
                                            warnings |-> <<>>])
                    /\ uploadState' = "success"
                    /\ handleDataExtracted(extractedData)
         ELSE LET parsed == parseText(pasteText, "pasted text")
              IN  /\ parseResult' = Some(parsed)
                  /\ uploadState' = IF parsed.success THEN "success" ELSE "error"
                  /\ IF parsed.success /\ Len(parsed.data) > 0
                       THEN handleDataExtracted(parsed.data[1])
                     ELSE UNCHANGED <<engine, checker, page>>

NextPaste ==
  \/ \E show \in BOOLEAN : setShowPasteInput(show)
  \/ \E text \in PasteTexts : setPasteText(text)
  \/ handlePaste

SpecPaste == InitPaste /\ [][NextPaste]_vars

-----------------------------------------------------------------------------
(* DocumentUploader: file drops (onDrop waits for the parsers), pasted     *)
(* text, the row selector and reset.  A file is what the parsers get from  *)
(* it: its name and type, its text and the rows the vision model reads     *)
(* from its image.  Reading a text file and asking the vision model can    *)
(* fail.                                                                   *)

\* how many onDrop calls wait for a parser at once in the model
MaxInFlight == 2

\* a row the vision parser returns: octave bands, or an NC rating alone
VisionRow(fileName, levels) ==
  IF levels = <<>>
    THEN [Extracted(fileName, "medium", None) EXCEPT !.ncRating = Some(35)]
  ELSE Extracted(fileName, "medium", Some(OctaveBandsOf(levels)))

\* the text of a one-page PDF without text items: its page header
PageHeader ==
  <<"-", "-", "-", " ", "P", "a", "g", "e", " ", "1", " ", "-", "-", "-", "\n">>

\* the files that are dropped: a text file with a bare row of levels, a
\* scanned schedule of two rows, and a picture of a schedule of three rows
\* whose last row has a rating only
Files ==
  {[name |-> "levels.txt", type |-> "text/plain",
    text |-> RowFrom(Numerals(DocumentedSample), 1, <<>>, <<" ">>),
    seen |-> <<>>],
   [name |-> "schedule.pdf", type |-> "application/pdf",
    text |-> PageHeader,
    seen |-> <<DocumentedSample, <<60, 55, 50, 45, 40, 35, 30, 25>>>>],
   [name |-> "sheet.png", type |-> "image/png", text |-> <<>>,
    seen |-> <<DocumentedSample, <<90, 88, 93, 87, 86, 82, 83, 76>>, <<>>>>]}

\* file.type.startsWith("image/")
isImage(file) == file.type = "image/png"

\* file.type === "application/pdf" || file.name.toLowerCase().endsWith(".pdf")
isPDF(file) == file.type = "application/pdf"

\* parsePDF(file): extractAllSoundData on the text of the pages
parsePDF(file) ==
  IF Trim(file.text) = <<>>
    THEN [success |-> FALSE, data |-> <<>>,
          errors |-> <<"No text content found in PDF.">>, warnings |-> <<>>]
  ELSE LET soundData == extractAllSoundData(file.text, file.name)
       IN  IF ~IsSet(soundData.octaveBands) /\ ~IsSet(soundData.ncRating)
              /\ ~IsSet(soundData.dba) /\ ~IsSet(soundData.sones)
             THEN [success |-> FALSE, data |-> <<>>, errors |-> <<>>,
                   warnings |->
                     <<"No sound data patterns found in the PDF text.">>]
           ELSE [success |-> TRUE, data |-> <<soundData>>, errors |-> <<>>,
                 warnings |-> <<>>]

\* parseFile(file), once file.text() has resolved
parseFile(file) ==
  IF isPDF(file) THEN parsePDF(file)
  ELSE IF file.type = "text/plain" THEN parseText(file.text, file.name)
  ELSE [success |-> FALSE, data |-> <<>>,
        errors |-> <<"Unsupported file type">>, warnings |-> <<>>]

\* parseImageWithVision(file, apiKey) and parsePDFWithVision(file, apiKey)
\* with Gemini initialized: extractSoundDataFromImage, whose catch block
\* returns a failure when the model does not answer
parseWithVision(file, answered) ==
  IF ~answered
    THEN [success |-> FALSE, data |-> <<>>,
          errors |-> <<"Failed to analyze image with AI">>, warnings |-> <<>>]
  ELSE IF Len(file.seen) = 0
    THEN [success |-> FALSE, data |-> <<>>, errors |-> <<>>,
          warnings |-> <<"No sound data found in the image.">>]
  ELSE [success |-> TRUE,
        data |-> [i \in 1..Len(file.seen) |-> VisionRow(file.name, file.seen[i])],
        errors |-> <<>>, warnings |-> <<>>]

\* the ParseResult an onDrop call ends with when every read and every model
\* call goes well
Outcome(file, key) ==
  IF isImage(file) THEN parseWithVision(file, TRUE)
  ELSE IF isPDF(file) /\ ~parseFile(file).success /\ key
    THEN parseWithVision(file, TRUE)
  ELSE parseFile(file)

\* the first row of the file will be handed to the page and saved
FirstRowSaved(file, key) ==
  LET r == Outcome(file, key)
  IN  r.success /\ Len(r.data) > 0 /\ IsSet(r.data[1].octaveBands)

\* the text typed into the paste box here: a row of seven levels, in which
\* parseSpecSheetText finds no octave bands (SpecPaste has the texts it
\* finds them in)
UploaderTexts ==
  {RowFrom(Numerals(SubSeq(DocumentedSample, 1, 7)), 1, <<>>, <<" ">>)}

\* the component is mounted; the effect has looked for the API key
InitUploader ==
  /\ input = Measurement(None, None, None, None)
  /\ Fresh
  /\ CheckerFresh
  /\ uploadState = "idle"
  /\ parseResult = None
  /\ showPasteInput = FALSE
  /\ pasteText = <<>>
  /\ usedAI = FALSE
  /\ selectedRowIndex = 0
  /\ showRowSelector = FALSE
  /\ hasApiKey \in BOOLEAN
  /\ inFlight = <<>>
  /\ latest = TRUE
  /\ PageFresh

\* onDrop(acceptedFiles) up to its first await.  The dropzone is rendered
\* when the paste box is closed, is disabled while uploadState is
\* "processing" and accepts images only with an API key, so the branch of an
\* image without a key is not reached
onDrop(file) ==
  /\ ~showPasteInput
  /\ uploadState # "processing"
  /\ isImage(file) => hasApiKey
  /\ Len(inFlight) < MaxInFlight
  /\ FirstRowSaved(file, hasApiKey) => Len(savedData) + Reserved < MaxSaved
  /\ uploadState' = "processing"
  /\ parseResult' = None
  /\ usedAI' = isImage(file)
  /\ selectedRowIndex' = 0
  /\ inFlight' = Append(Superseded(inFlight),
                        [file |-> file,
                         awaits |-> IF isImage(file) THEN "vision"
                                    ELSE "parseFile",
                         superseded |-> FALSE,
                         saves |-> FirstRowSaved(file, hasApiKey),
                         savedLength |-> Len(savedData)])
  /\ latest' = TRUE
  /\ UNCHANGED <<showPasteInput, pasteText, showRowSelector, hasApiKey>>
  /\ UNCHANGED <<engine, checker, page>>

\* a sequence without its i-th element
Without(seq, i) == SubSeq(seq, 1, i - 1) \o SubSeq(seq, i + 1, Len(seq))

\* mutant: the catch block records the error but leaves uploadState alone
CaughtSilently(i) ==
  /\ parseResult' = Some([success |-> FALSE, data |-> <<>>,
                          errors |-> <<"error.message">>, warnings |-> <<>>])
  /\ inFlight' = Without(inFlight, i)
  /\ latest' = ~inFlight[i].superseded
  /\ UNCHANGED <<uploadState, showPasteInput, pasteText, usedAI,
                 selectedRowIndex, showRowSelector, hasApiKey>>
  /\ UNCHANGED <<engine, checker, page>>

\* the catch block of onDrop
Caught(i) ==
  /\ uploadState' = "error"
  /\ parseResult' = Some([success |-> FALSE, data |-> <<>>,
                          errors |-> <<"error.message">>, warnings |-> <<>>])
  /\ inFlight' = Without(inFlight, i)
  /\ latest' = ~inFlight[i].superseded
  /\ UNCHANGED <<showPasteInput, pasteText, usedAI, selectedRowIndex,
                 showRowSelector, hasApiKey>>
  /\ UNCHANGED <<engine, checker, page>>

\* the end of the try block of onDrop: setParseResult, setUploadState and
\* processExtractedData with the page's handler of the render in which the
\* file was dropped.  The handler throws where crypto.randomUUID is missing
Settled(i, parsed, throws) ==
  IF parsed.success /\ Len(parsed.data) > 0
       /\ IsSet(parsed.data[1].octaveBands) /\ throws
    THEN Caught(i)
  ELSE /\ parseResult' = Some(parsed)
       /\ uploadState' = IF parsed.success THEN "success" ELSE "error"
       /\ inFlight' = Without(inFlight, i)
       /\ latest' = ~inFlight[i].superseded
       /\ UNCHANGED <<showPasteInput, pasteText, usedAI, selectedRowIndex,
                      showRowSelector, hasApiKey>>
       /\ IF parsed.success /\ Len(parsed.data) > 0
            THEN handleDataExtractedAt(parsed.data[1], inFlight[i].savedLength)
          ELSE UNCHANGED <<engine, checker, page>>

\* await parseFile(file) settles for the i-th call in flight: it rejects when
\* file.text() does; a PDF without text data goes on to the vision parser
\* when there is an API key
FileParsed(i, readable, throws) ==
  /\ i \in 1..Len(inFlight)
  /\ inFlight[i].awaits = "parseFile"
  /\ LET file == inFlight[i].file
     IN  IF ~isPDF(file) /\ ~readable THEN Caught(i)
         ELSE IF isPDF(file) /\ ~parseFile(file).success /\ hasApiKey
           THEN /\ usedAI' = TRUE
                /\ inFlight' = [inFlight EXCEPT ![i].awaits = "vision"]
                /\ UNCHANGED <<uploadState, parseResult, showPasteInput,
                               pasteText, selectedRowIndex, showRowSelector,
                               hasApiKey, latest>>
                /\ UNCHANGED <<engine, checker, page>>
         ELSE Settled(i, parseFile(file), throws)

\* await parseImageWithVision / parsePDFWithVision settles for the i-th call
VisionParsed(i, answered, throws) ==
  /\ i \in 1..Len(inFlight)
  /\ inFlight[i].awaits = "vision"
  /\ Settled(i, parseWithVision(inFlight[i].file, answered), throws)

\* the row selector button: setShowRowSelector(!showRowSelector)
toggleRowSelector ==
  /\ IsSet(parseResult)
  /\ Val(parseResult).success
  /\ Len(Val(parseResult).data) > 1
  /\ showRowSelector' = ~showRowSelector
  /\ UNCHANGED <<uploadState, parseResult, showPasteInput, pasteText, usedAI,
                 selectedRowIndex, hasApiKey, inFlight, latest>>
  /\ UNCHANGED <<engine, checker, page>>

\* handleRowSelect(index) from the open list of rows, with
\* processExtractedData and the page's handler
handleRowSelect(index) ==
  /\ IsSet(parseResult)
  /\ Val(parseResult).success
  /\ Len(Val(parseResult).data) > 1
  /\ showRowSelector
  /\ index \in 0..(Len(Val(parseResult).data) - 1)
  /\ IsSet(Val(parseResult).data[index + 1].octaveBands) =>
       Len(savedData) + Reserved < MaxSaved
  /\ selectedRowIndex' = index
  /\ showRowSelector' = FALSE
  /\ handleDataExtracted(Val(parseResult).data[index + 1])
  /\ UNCHANGED <<uploadState, parseResult, showPasteInput, pasteText, usedAI,
                 hasApiKey, inFlight, latest>>

\* mutant: reset leaves the parseResult on the screen
resetKeepsResult ==
  /\ ~showPasteInput
  /\ uploadState \in {"success", "error"}
  /\ uploadState' = "idle"
  /\ pasteText' = <<>>
  /\ showPasteInput' = FALSE
  /\ usedAI' = FALSE
  /\ selectedRowIndex' = 0
  /\ showRowSelector' = FALSE
  /\ UNCHANGED <<parseResult, hasApiKey, inFlight, latest>>
  /\ UNCHANGED <<engine, checker, page>>

\* reset(), from "Upload another file" or "Try again"
reset ==
  /\ ~showPasteInput
  /\ uploadState \in {"success", "error"}
  /\ uploadState' = "idle"
  /\ parseResult' = None
  /\ pasteText' = <<>>
  /\ showPasteInput' = FALSE
  /\ usedAI' = FALSE
  /\ selectedRowIndex' = 0
  /\ showRowSelector' = FALSE
  /\ UNCHANGED <<hasApiKey, inFlight, latest>>
  /\ UNCHANGED <<engine, checker, page>>

NextUploader ==
  \/ \E show \in BOOLEAN : setShowPasteInput(show)
  \/ \E text \in UploaderTexts : setPasteText(text)
  \/ handlePaste
  \/ \E file \in Files : onDrop(file)
  \/ \E i \in 1..MaxInFlight, readable \in BOOLEAN, throws \in BOOLEAN :
       FileParsed(i, readable, throws)
  \/ \E i \in 1..MaxInFlight, answered \in BOOLEAN, throws \in BOOLEAN :
       VisionParsed(i, answered, throws)
  \/ toggleRowSelector
  \/ \E index \in 0..2 : handleRowSelect(index)
  \/ reset

SpecUploader == InitUploader /\ [][NextUploader]_vars

\* the step of FileParsed or VisionParsed by which the i-th call in flight
\* stops waiting for its parser, as inFlight shows it
ParserSettles(i) ==
  /\ i \in 1..Len(inFlight)
  /\ \/ inFlight' = Without(inFlight, i)
     \/ /\ inFlight[i].awaits = "parseFile"
        /\ inFlight' = [inFlight EXCEPT ![i].awaits = "vision"]

\* every parser promise settles: no call in flight waits for ever
SpecUploaderFair ==
  /\ SpecUploader
  /\ \A i \in 1..MaxInFlight : WF_inFlight(ParserSettles(i))

-----------------------------------------------------------------------------
(* The main page: the input form, the conversion result and the list of    *)
(* saved data (auto-save, manual save, select, delete, rename).            *)

\* how many ids crypto.randomUUID() hands out in the model
MaxIds == 2

\* the tabs of the input form that are clicked
InputModes == {"nc", "octave"}

\* the numbers typed into the single-value input
InputValues == {16}

\* the level typed into an octave band field, and the fields it is typed into
TypedLevels == {58}

TypedFreqs == {63}

\* the names typed into the rename box
TypedNames == {<<"AHU-1">>}

\* the data the DocumentUploader hands to onDataExtracted: a row with octave
\* bands and a row with a rating only
ExtractedRows ==
  {VisionRow("sheet.png", DocumentedSample), VisionRow("sheet.png", <<>>)}

\* OCTAVE_BAND_FREQUENCIES.reduce(... octaveBands[freq] ?? 0 ...): a field
\* that was never typed into reads as 0, so {} is the spectrum of zeros
FilledBands ==
  IF IsSet(pageOctaveBands) THEN Val(pageOctaveBands)
  ELSE Bands(0, 0, 0, 0, 0, 0, 0, 0)

\* exceeds70 ? 71 : result?.nc for a result
EquipmentNCOf(measured) ==
  IF IsSet(measured.octaveBands) /\ exceedsNC70(Val(measured.octaveBands))
    THEN Some(71)
  ELSE measured.nc

\* setResult(convertSoundMeasurement(measurement)) and the render after it
setResult(measurement) ==
  LET converted == convertSoundMeasurement(measurement)
  IN  /\ input' = measurement
      /\ called' = "convertSoundMeasurement"
      /\ result' = converted
      /\ table' = TableAfterConvert(table, measurement)
      /\ equipmentNC' = EquipmentNCOf(converted)
      /\ compliance' = Memoized(EquipmentNCOf(converted), selectedRoomId)
      /\ UNCHANGED <<conv, curve, num, flag, other, selectedRoomId>>

\* setResult(null) and the render after it
setResultNull ==
  /\ input' = Measurement(None, None, None, None)
  /\ called' = "none"
  /\ result' = NoResult
  /\ equipmentNC' = None
  /\ compliance' = None
  /\ UNCHANGED <<conv, curve, num, flag, table, other, selectedRoomId>>

\* the ids of a list of saved items
Ids(items) == {items[i].id : i \in 1..Len(items)}

InitPage ==
  /\ input = Measurement(None, None, None, None)
  /\ Fresh
  /\ CheckerFresh
  /\ UploaderFresh
  /\ PageFresh

\* onValueChange={(v) => setInputMode(v as InputMode)}
setInputMode(mode) ==
  /\ mode # inputMode
  /\ inputMode' = mode
  /\ UNCHANGED <<pageOctaveBands, savedData, selectedDataId, uuids, inputValue,
                 editingId, editingName>>
  /\ UNCHANGED <<engine, checker, uploader>>

\* onChange={(e) => setInputValue(e.target.value)} in the sones, nc and dba
\* tabs
setInputValue(value) ==
  /\ inputMode # "octave"
  /\ inputValue' = value
  /\ UNCHANGED <<inputMode, pageOctaveBands, savedData, selectedDataId, uuids,
                 editingId, editingName>>
  /\ UNCHANGED <<engine, checker, uploader>>

\* handleOctaveBandChange(freq, value)
handleOctaveBandChange(freq, value) ==
  /\ inputMode = "octave"
  /\ pageOctaveBands' = Some([FilledBands EXCEPT ![freq] = value])
  /\ UNCHANGED <<inputMode, savedData, selectedDataId, uuids, inputValue,
                 editingId, editingName>>
  /\ UNCHANGED <<engine, checker, uploader>>

\* handleConvert(); a number has been typed when the mode takes one number
handleConvert ==
  /\ inputMode # "octave" => IsSet(inputValue)
  /\ setResult(
       IF inputMode = "sones"
         THEN Measurement(None, None, None, Some(100 * Val(inputValue)))
       ELSE IF inputMode = "nc"
         THEN Measurement(None, Some(Val(inputValue)), None, None)
       ELSE IF inputMode = "dba"
         THEN Measurement(None, None, Some(10 * Val(inputValue)), None)
       ELSE Measurement(Some(FilledBands), None, None, None))
  /\ UNCHANGED <<page, uploader>>

\* handleClear()
handleClear ==
  /\ inputValue' = None
  /\ pageOctaveBands' = None
  /\ setResultNull
  /\ selectedDataId' = None
  /\ UNCHANGED <<inputMode, savedData, uuids, editingId, editingName>>
  /\ UNCHANGED uploader

\* the DocumentUploader calls onDataExtracted(data): handleDataExtracted
onDataExtracted(data) ==
  /\ Len(savedData) < MaxSaved
  /\ uuids < MaxIds
  /\ handleDataExtracted(data)
  /\ UNCHANGED uploader

\* handleSelectData(item) for the i-th row of the list
handleSelectData(i) ==
  /\ i \in 1..Len(savedData)
  /\ selectedDataId' = Some(savedData[i].id)
  /\ pageOctaveBands' = Some(savedData[i].octaveBands)
  /\ inputMode' = "octave"
  /\ setResult(Measurement(Some(savedData[i].octaveBands), None, None, None))
  /\ UNCHANGED <<savedData, uuids, inputValue, editingId, editingName>>
  /\ UNCHANGED uploader

\* mutant: deleting the selected item leaves the selection and the result
handleDeleteDataOnly(id) ==
  /\ id \in Ids(savedData)
  /\ editingId # Some(id)
  /\ savedData' = SelectSeq(savedData, LAMBDA item : item.id # id)
  /\ UNCHANGED <<selectedDataId, pageOctaveBands, engine, checker>>
  /\ UNCHANGED <<inputMode, uuids, inputValue, editingId, editingName>>
  /\ UNCHANGED uploader

\* handleDeleteData(id), from the delete button of a row that is not being
\* renamed
handleDeleteData(id) ==
  /\ id \in Ids(savedData)
  /\ editingId # Some(id)
  /\ savedData' = SelectSeq(savedData, LAMBDA item : item.id # id)
  /\ IF selectedDataId = Some(id)
       THEN /\ selectedDataId' = None
            /\ setResultNull
            /\ pageOctaveBands' = None
     ELSE UNCHANGED <<selectedDataId, pageOctaveBands, engine, checker>>
  /\ UNCHANGED <<inputMode, uuids, inputValue, editingId, editingName>>
  /\ UNCHANGED uploader

\* handleStartEdit(item) for the i-th row of the list
handleStartEdit(i) ==
  /\ i \in 1..Len(savedData)
  /\ editingId # Some(savedData[i].id)
  /\ editingId' = Some(savedData[i].id)
  /\ editingName' = savedData[i].name
  /\ UNCHANGED <<inputMode, pageOctaveBands, savedData, selectedDataId, uuids,
                 inputValue>>
  /\ UNCHANGED <<engine, checker, uploader>>

\* onChange={(e) => setEditingName(e.target.value)}
setEditingName(name) ==
  /\ IsSet(editingId)
  /\ Val(editingId) \in Ids(savedData)
  /\ editingName' = name
  /\ UNCHANGED <<inputMode, pageOctaveBands, savedData, selectedDataId, uuids,
                 inputValue, editingId>>
  /\ UNCHANGED <<engine, checker, uploader>>

\* handleSaveEdit(id), from the row that is being renamed
handleSaveEdit(id) ==
  /\ editingId = Some(id)
  /\ id \in Ids(savedData)
  /\ savedData' = [i \in 1..Len(savedData) |->
                     IF savedData[i].id = id
                       THEN [savedData[i] EXCEPT !.name = editingName]
                     ELSE savedData[i]]
  /\ editingId' = None
  /\ editingName' = <<>>
  /\ UNCHANGED <<inputMode, pageOctaveBands, selectedDataId, uuids, inputValue>>
  /\ UNCHANGED <<engine, checker, uploader>>

\* handleCancelEdit(), from the row that is being renamed
handleCancelEdit ==
  /\ IsSet(editingId)
  /\ Val(editingId) \in Ids(savedData)
  /\ editingId' = None
  /\ editingName' = <<>>
  /\ UNCHANGED <<inputMode, pageOctaveBands, savedData, selectedDataId, uuids,
                 inputValue>>
  /\ UNCHANGED <<engine, checker, uploader>>

\* handleAddManualEntry(), from the Save button of the octave tab; without a
\* level above 0 it returns at once
handleAddManualEntry ==
  /\ inputMode = "octave"
  /\ \E freq \in Freqs : FilledBands[freq] > 0
  /\ Len(savedData) < MaxSaved
  /\ uuids < MaxIds
  /\ LET newItem == [id |-> uuids + 1,
                     name |-> <<"Manual Entry", Len(savedData) + 1>>,
                     octaveBands |-> FilledBands,
                     source |-> "manual"]
     IN  /\ uuids' = uuids + 1
         /\ savedData' = Append(savedData, newItem)
         /\ selectedDataId' = Some(newItem.id)
  /\ setResult(Measurement(Some(FilledBands), None, None, None))
  /\ UNCHANGED <<inputMode, pageOctaveBands, inputValue, editingId, editingName>>
  /\ UNCHANGED uploader

NextPage ==
  \/ \E mode \in InputModes : setInputMode(mode)
  \/ \E value \in Opt(InputValues) : setInputValue(value)
  \/ \E freq \in TypedFreqs, value \in TypedLevels :
       handleOctaveBandChange(freq, value)
  \/ handleConvert
  \/ handleClear
  \/ \E data \in ExtractedRows : onDataExtracted(data)
  \/ \E i \in 1..MaxSaved : handleSelectData(i)
  \/ \E id \in 1..MaxIds : handleDeleteData(id)
  \/ \E i \in 1..MaxSaved : handleStartEdit(i)
  \/ \E name \in TypedNames : setEditingName(name)
  \/ \E id \in 1..MaxIds : handleSaveEdit(id)
  \/ handleCancelEdit
  \/ handleAddManualEntry

SpecPage == InitPage /\ [][NextPage]_vars

-----------------------------------------------------------------------------
(* Properties of the engine.                                               *)

StandardRatings == {15 + 5 * k : k \in 0..11}

\* the threshold curve of a standard rating
CurveOf(r) == Val(getNCCurve(r)).values

\* spectrum b lies on or under curve c at every frequency
Contains(c, b) == \A freq \in Freqs : b[freq] <= c[freq]

\* the input with every field but the highest-priority set one removed,
\* in the order octaveBands > nc > dba > sones
Authoritative(inp) ==
  IF IsSet(inp.octaveBands) THEN Measurement(inp.octaveBands, None, None, None)
  ELSE IF IsSet(inp.nc) THEN Measurement(None, inp.nc, None, None)
  ELSE IF IsSet(inp.dba) THEN Measurement(None, None, inp.dba, None)
  ELSE Measurement(None, None, None, inp.sones)

Converted == called = "convertSoundMeasurement"

\* C1: the output of convertSoundMeasurement equals the output for the input
\* that holds only the highest-priority set field (octaveBands > nc > dba >
\* sones); with octaveBands and nc both set, the output nc is
\* calculateNCRating(octaveBands), not the nc supplied.
C1_PriorityLaw ==
  Converted =>
    /\ result = convertSoundMeasurement(Authoritative(input))
    /\ (IsSet(input.octaveBands) /\ IsSet(input.nc)) =>
         result.nc = Some(calculateNCRating(Val(input.octaveBands)))

\* octaveBands and nc both set, the supplied nc overwritten by the derived one
C1_Witness ==
  /\ Converted
  /\ IsSet(input.octaveBands) /\ IsSet(input.nc) /\ IsSet(input.dba)
  /\ result.nc # input.nc
  /\ result.nc = Some(calculateNCRating(Val(input.octaveBands)))

\* C2: calculateNCRating returns the lowest standard rating whose curve
\* contains the spectrum at all 8 frequencies, and 70 when no standard curve
\* contains it; 15 for the all-zero spectrum, 70 above every curve.
C2_LowestContainingCurve ==
  (called = "calculateNCRating") =>
    LET b == Val(input.octaveBands)
        containing == {r \in StandardRatings : Contains(CurveOf(r), b)}
    IN  /\ containing # {} =>
             /\ num \in containing
             /\ \A r \in containing : num <= r
        /\ containing = {} => num = 70
        /\ (\A freq \in Freqs : b[freq] = 0) => num = 15
        /\ (\A r \in StandardRatings : \E freq \in Freqs : b[freq] > CurveOf(r)[freq])
             => num = 70

\* a spectrum between two curves is rated by the upper one
C2_Witness ==
  /\ called = "calculateNCRating"
  /\ Contains(CurveOf(40), Val(input.octaveBands))
  /\ ~Contains(CurveOf(35), Val(input.octaveBands))
  /\ Val(input.octaveBands) # CurveOf(40)
  /\ num = 40

\* C3: a standard curve classifies as exactly itself:
\* calculateNCRating(getNCCurve(r).values) = r for every standard rating r.
C3_CurveClassifiesAsItself ==
  (called = "calculateNCRating") =>
    \A r \in StandardRatings :
      (IsSet(getNCCurve(r)) /\ Val(input.octaveBands) = Val(getNCCurve(r)).values)
        => num = r

C3_Witness ==
  /\ called = "calculateNCRating"
  /\ Val(input.octaveBands) = Val(getNCCurve(15)).values
  /\ num = 15

\* C4: interpolation is a no-op at the knots of the table:
\* interpolateNCCurve(r) equals getNCCurve(r).values for every standard r.
C4_InterpolateAtKnots ==
  (called = "interpolateNCCurve" /\ Val(input.nc) \in StandardRatings) =>
    /\ IsSet(getNCCurve(Val(input.nc)))
    /\ \A freq \in Freqs :
         Val(curve)[freq] = Val(getNCCurve(Val(input.nc))).values[freq]

C4_Witness ==
  /\ called = "interpolateNCCurve"
  /\ Val(input.nc) = 15
  /\ Val(curve) = Bands(47, 36, 29, 22, 17, 14, 12, 11)

\* C5: interpolation is monotonic in the rating: for integer ratings
\* r1 < r2 in [15,70] and every frequency, interpolateNCCurve(r1) is at or
\* below interpolateNCCurve(r2), the rounding included.
C5_InterpolateMonotonic ==
  (called = "interpolateNCCurve" /\ Val(input.nc) \in 15..70) =>
    \A r2 \in 15..70 :
      Val(input.nc) < r2 =>
        \A freq \in Freqs : Val(curve)[freq] <= interpolateNCCurve(r2)[freq]

\* a rating strictly between two knots, its curve strictly between theirs
C5_Witness ==
  /\ called = "interpolateNCCurve"
  /\ Val(input.nc) = 32
  /\ Val(curve)[63] > CurveOf(30)[63]
  /\ Val(curve)[63] < CurveOf(35)[63]

\* C6: the numeric fields of the output of convertSoundMeasurement equal the
\* derivations of the path taken: from octaveBands b: octaveBands = b,
\* nc = calculateNCRating(b), dba = octaveBandsToDBA(b), sones =
\* dbaToSones(dba) (the NC-35 curve gives nc = 35); from nc: nc unchanged,
\* dba = nc + 6, sones = ncToSones(nc), octaveBands = interpolateNCCurve(nc);
\* from dba: dba unchanged, nc = dbaToNC(dba), sones = dbaToSones(dba); from
\* sones: sones unchanged, dba = sonesToDBA(sones), nc = sonesToNC(sones).
C6_PathDerivations ==
  Converted =>
    LET a == Authoritative(input)
    IN  /\ IsSet(a.octaveBands) =>
             /\ result.octaveBands = a.octaveBands
             /\ result.nc = Some(calculateNCRating(Val(a.octaveBands)))
             /\ result.dba = Some(octaveBandsToDBA(Val(a.octaveBands)).value)
             /\ result.sones = Some(dbaToSones(Val(result.dba)).value)
             /\ Val(a.octaveBands) = Bands(60, 52, 45, 40, 36, 34, 33, 32)
                  => result.nc = Some(35)
        /\ IsSet(a.nc) =>
             /\ result.nc = a.nc
             /\ result.dba = Some(10 * (Val(a.nc) + 6))
             /\ result.sones = Some(ncToSones(Val(a.nc)).value)
             /\ result.octaveBands = Some(interpolateNCCurve(Val(a.nc)))
        /\ IsSet(a.dba) =>
             /\ result.dba = a.dba
             /\ result.nc = Some(dbaToNC(Val(a.dba)).value)
             /\ result.sones = Some(dbaToSones(Val(a.dba)).value)
        /\ IsSet(a.sones) =>
             /\ result.sones = a.sones
             /\ result.dba = Some(sonesToDBA(Val(a.sones)).value)
             /\ result.nc = Some(sonesToNC(Val(a.sones)).value)

\* the NC-35 curve converted: NC 35, 44.2 dBA, 1.34 sones
C6_Witness ==
  /\ Converted
  /\ input.octaveBands = Some(Bands(60, 52, 45, 40, 36, 34, 33, 32))
  /\ result.nc = Some(35)
  /\ result.dba = Some(442)
  /\ result.sones = Some(134)

\* C7: the output is always tagged "calculated"; octaveBands is populated on
\* the octaveBands and nc paths and unset on the dba and sones paths; with no
\* input field set no numeric field is populated.
C7_FieldPopulation ==
  Converted =>
    /\ result.source = "calculated"
    /\ IsSet(result.octaveBands) <=> (IsSet(input.octaveBands) \/ IsSet(input.nc))
    /\ (~IsSet(input.octaveBands) /\ ~IsSet(input.nc)
          /\ ~IsSet(input.dba) /\ ~IsSet(input.sones))
         => /\ result.sones = None
            /\ result.nc = None
            /\ result.dba = None
            /\ result.octaveBands = None

\* a dBA value converted: nc and sones derived, no spectrum made up
C7_Witness ==
  /\ Converted
  /\ ~IsSet(input.octaveBands) /\ ~IsSet(input.nc) /\ IsSet(input.dba)
  /\ IsSet(result.nc) /\ IsSet(result.sones) /\ IsSet(result.dba)
  /\ result.octaveBands = None
  /\ result.source = "calculated"

\* exact > approximate > estimated
ConfidenceRank(c) ==
  IF c = "exact" THEN 3 ELSE IF c = "approximate" THEN 2 ELSE 1

\* the confidences of the steps the chained conversion just called composes
StepConfidences ==
  IF called = "ncToSones"
    THEN {ncToDBA(Val(input.nc)).confidence,
          dbaToSones(ncToDBA(Val(input.nc)).value).confidence}
  ELSE IF called = "sonesToNC"
    THEN {sonesToDBA(Val(input.sones)).confidence,
          dbaToNC(sonesToDBA(Val(input.sones)).value).confidence}
  ELSE IF called = "octaveBandsToSones"
    THEN {octaveBandsToDBA(Val(input.octaveBands)).confidence,
          dbaToSones(octaveBandsToDBA(Val(input.octaveBands)).value).confidence}
  ELSE {}

NC70Values == NC_CURVES[Len(NC_CURVES)].values

\* C9: exceedsNC70 is true iff some band of the spectrum is above the NC-70
\* curve; it is true on {63:90,125:88,250:93,500:87,1000:86,2000:82,4000:83,
\* 8000:76}.
C9_ExceedsNC70 ==
  (called = "exceedsNC70") =>
    /\ flag <=> (\E k \in 1..Len(OCTAVE_BAND_FREQUENCIES) :
                   Val(input.octaveBands)[OCTAVE_BAND_FREQUENCIES[k]]
                     > NC70Values[OCTAVE_BAND_FREQUENCIES[k]])
    /\ Val(input.octaveBands) = Bands(90, 88, 93, 87, 86, 82, 83, 76) => flag

\* a spectrum one dB above NC-70 in a single band exceeds the scale
C9_Witness ==
  /\ called = "exceedsNC70"
  /\ flag
  /\ Cardinality({freq \in Freqs : Val(input.octaveBands)[freq] > NC70Values[freq]}) = 1
  /\ \A freq \in Freqs : Val(input.octaveBands)[freq] <= NC70Values[freq] + 1

\* C10: getMaxNC70Excess is max(0, max over the 8 bands of spectrum - NC-70
\* curve); it is 0 exactly when exceedsNC70 is false and positive exactly
\* when it is true.
C10_MaxNC70Excess ==
  (called = "getMaxNC70Excess") =>
    LET b == Val(input.octaveBands)
        over == {b[freq] - NC70Values[freq] : freq \in Freqs} \cup {0}
    IN  /\ num \in over
        /\ \A d \in over : d <= num
        /\ (num = 0) <=> ~exceedsNC70(b)
        /\ (num > 0) <=> exceedsNC70(b)

\* a spectrum two dB above NC-70 in one band
C10_Witness ==
  /\ called = "getMaxNC70Excess"
  /\ num = 2
  /\ exceedsNC70(Val(input.octaveBands))

\* C11 as stated: on the sound power sample getMaxNC70Excess is 90 - 83 = 7.
C11_SampleExcessIsSeven ==
  (called = "getMaxNC70Excess" /\ Val(input.octaveBands) = SoundPowerSample)
    => num = 7

\* C11: on {63:90,125:88,250:93,500:87,1000:86,2000:82,4000:83,8000:76},
\* against the NC-70 curve {63:83,125:79,250:75,500:72,1000:71,2000:70,
\* 4000:69,8000:68}, getMaxNC70Excess is 93 - 75 = 18, the excess at 250 Hz;
\* 90 - 83 = 7 is the excess at 63 Hz, the smallest of the eight.
C11_SampleExcess ==
  (called = "getMaxNC70Excess" /\ Val(input.octaveBands) = SoundPowerSample) =>
    /\ NC70Values = Bands(83, 79, 75, 72, 71, 70, 69, 68)
    /\ num = 18
    /\ num = SoundPowerSample[250] - NC70Values[250]
    /\ SoundPowerSample[63] - NC70Values[63] = 7
    /\ \A freq \in Freqs : SoundPowerSample[freq] - NC70Values[freq] >= 7

C11_Witness ==
  /\ called = "getMaxNC70Excess"
  /\ Val(input.octaveBands) = Bands(90, 88, 93, 87, 86, 82, 83, 76)
  /\ num = 18

\* C12: classification saturates silently: a spectrum for which exceedsNC70
\* is true is rated 70, like a spectrum inside NC-70 but not inside NC-65; a
\* rating below 70 implies exceedsNC70 is false; the rating is always one of
\* the 12 standard ratings.
C12_SaturatesAt70 ==
  (called = "calculateNCRating") =>
    /\ exceedsNC70(Val(input.octaveBands)) => num = 70
    /\ (Contains(CurveOf(70), Val(input.octaveBands))
          /\ ~Contains(CurveOf(65), Val(input.octaveBands))) => num = 70
    /\ num < 70 => ~exceedsNC70(Val(input.octaveBands))
    /\ num \in StandardRatings

\* a spectrum above NC-70 in every band, rated 70
C12_Witness ==
  /\ called = "calculateNCRating"
  /\ \A freq \in Freqs : Val(input.octaveBands)[freq] > NC70Values[freq]
  /\ exceedsNC70(Val(input.octaveBands))
  /\ num = 70

\* C13 as stated: ncToDBA(dbaToNC(d)).value = d for every dBA value the
\* engine handles, one-decimal values included.
C13_ExactInverses ==
  (called = "dbaToNC") => ncToDBA(conv.value).value = Val(input.dba)

\* C13: ncToDBA and dbaToNC both have confidence "approximate";
\* dbaToNC(ncToDBA(n)).value = n for every integer NC value n; for a dBA
\* value d, ncToDBA(dbaToNC(d)).value is d rounded to the nearest integer
\* (halves up), which is d exactly when d is an integer;
\* dbaToNC(51).value = 45 and ncToDBA(45).value = 51.
C13_InverseUpToRounding ==
  /\ (called = "ncToDBA") =>
       /\ conv.confidence = "approximate"
       /\ dbaToNC(conv.value).value = Val(input.nc)
       /\ Val(input.nc) = 45 => conv.value = 510
  /\ (called = "dbaToNC") =>
       /\ conv.confidence = "approximate"
       /\ ncToDBA(conv.value).value = 10 * ((Val(input.dba) + 5) \div 10)
       /\ Val(input.dba) % 10 = 0 => ncToDBA(conv.value).value = Val(input.dba)
       /\ Val(input.dba) = 510 => conv.value = 45

\* 44.2 dBA, the value octaveBandsToDBA gives for the NC-35 curve: NC 38,
\* and back 44 dBA
C13_Witness ==
  /\ called = "dbaToNC"
  /\ Val(input.dba) = 442
  /\ conv.value = 38
  /\ ncToDBA(conv.value).value = 440

\* C14: input outside the domain is clamped or gives an exact 0: sonesToDBA
\* of sones <= 0 and dbaToSones of dBA <= 0 return value 0 with confidence
\* "exact", sonesToPhons of sones <= 0 is 0, interpolateNCCurve of a rating
\* below 15 is the NC-15 curve and of a rating above 70 the NC-70 curve.
C14_OutOfDomain ==
  /\ (called = "sonesToDBA" /\ Val(input.sones) <= 0) =>
       conv = [value |-> 0, confidence |-> "exact"]
  /\ (called = "dbaToSones" /\ Val(input.dba) <= 0) =>
       conv = [value |-> 0, confidence |-> "exact"]
  /\ (called = "sonesToPhons" /\ Val(input.sones) <= 0) => num = 0
  /\ (called = "interpolateNCCurve" /\ Val(input.nc) < 15) =>
       curve = Some(NC_CURVES[1].values)
  /\ (called = "interpolateNCCurve" /\ Val(input.nc) > 70) =>
       curve = Some(NC70Values)

\* a negative sones value converted to dBA
C14_Witness ==
  /\ called = "sonesToDBA"
  /\ Val(input.sones) < 0
  /\ conv = [value |-> 0, confidence |-> "exact"]

\* C15: sonesToPhons(phonsToSones(p)) = p for p = 40 + 10k, where
\* phonsToSones(p) is 2^k exactly; sonesToPhons(1) = 40 and
\* phonsToSones(40) = 1.
C15_PhonsRoundTrip ==
  /\ (called = "phonsToSones" /\ Val(input.dba) >= 400 /\ Val(input.dba) % 100 = 0) =>
       /\ num = 1000000 * Pow(2, (Val(input.dba) - 400) \div 100)
       /\ 100000 * Val(input.dba) = sonesToPhons(num \div 10000)
  /\ (called = "phonsToSones" /\ Val(input.dba) = 400) => num = 1000000
  /\ (called = "sonesToPhons" /\ Val(input.sones) = 100) => num = 40000000

\* 70 phons are 8 sones, and 8 sones are 70 phons
C15_Witness ==
  /\ called = "phonsToSones"
  /\ Val(input.dba) = 700
  /\ num = 8000000
  /\ sonesToPhons(800) = 70000000

\* C16: the table holds exactly the 12 ratings 15, 20, ..., 70 in ascending
\* order; along each curve the level never rises from one frequency to the
\* next higher one; at each frequency the level never falls from one rating
\* to the next higher one.
C16_TableShape ==
  /\ Len(table) = 12
  /\ \A i \in 1..Len(table) : table[i].rating = 15 + 5 * (i - 1)
  /\ {table[i].rating : i \in 1..Len(table)} = StandardRatings
  /\ \A i \in 1..Len(table) : \A k \in 1..(Len(OCTAVE_BAND_FREQUENCIES) - 1) :
        table[i].values[OCTAVE_BAND_FREQUENCIES[k]]
          >= table[i].values[OCTAVE_BAND_FREQUENCIES[k + 1]]
  /\ \A i \in 1..(Len(table) - 1) : \A freq \in Freqs :
        table[i].values[freq] <= table[i + 1].values[freq]

\* the table as a classification has found it: a spectrum was rated 45, so
\* the loop went past the curves below NC-45
C16_Witness ==
  /\ called = "calculateNCRating"
  /\ num = 45
  /\ Len(table) = 12
  /\ table[7].rating = 45

\* every value a caller holds is the value the function gives on the caller's
\* argument
ReturnsAsAlone ==
  /\ called = "convertSoundMeasurement" => result = convertSoundMeasurement(input)
  /\ called = "calculateNCRating" =>
       num = calculateNCRating(Val(input.octaveBands))
  /\ called = "interpolateNCCurve" =>
       curve = Some(interpolateNCCurve(Val(input.nc)))
  /\ called = "ncToSones" => conv = ncToSones(Val(input.nc))
  /\ called = "sonesToNC" => conv = sonesToNC(Val(input.sones))
  /\ called = "octaveBandsToSones" =>
       conv = octaveBandsToSones(Val(input.octaveBands))
  /\ called = "exceedsNC70" => flag = exceedsNC70(Val(input.octaveBands))
  /\ called = "getMaxNC70Excess" =>
       num = getMaxNC70Excess(Val(input.octaveBands))
  /\ called = "ncToDBA" => conv = ncToDBA(Val(input.nc))
  /\ called = "dbaToNC" => conv = dbaToNC(Val(input.dba))
  /\ called = "sonesToDBA" => conv = sonesToDBA(Val(input.sones))
  /\ called = "dbaToSones" => conv = dbaToSones(Val(input.dba))
  /\ called = "sonesToPhons" => num = sonesToPhons(Val(input.sones))
  /\ called = "phonsToSones" => num = phonsToSones(Val(input.dba))
  /\ other.called = "getNCCurve" => other.found = getNCCurve(Val(other.nc))
  /\ other.called = "interpolateNCCurve" =>
       other.curve = Some(interpolateNCCurve(Val(other.nc)))
  /\ other.called = "calculateNCRating" =>
       other.num = calculateNCRating(Val(other.octaveBands))

C18_OutputNCInDomain ==
  (called = "convertSoundMeasurement" /\ IsSet(result.nc)) =>
    (Val(result.nc) >= 15 /\ Val(result.nc) <= 70)

RECURSIVE RunEnd(_, _)
RunEnd(text, i) ==
  IF i < Len(text) /\ IsDigit(text[i + 1]) THEN RunEnd(text, i + 1) ELSE i

\* the runs of digits of a text, in the order they are written
RECURSIVE DigitRunsFrom(_, _, _)
DigitRunsFrom(text, i, runs) ==
  IF i > Len(text) THEN runs
  ELSE IF ~IsDigit(text[i]) THEN DigitRunsFrom(text, i + 1, runs)
  ELSE DigitRunsFrom(text, RunEnd(text, i) + 1,
                     Append(runs, [first |-> i, last |-> RunEnd(text, i)]))

\* the integers a text contains, in the order they are written
IntegersOf(text) ==
  LET runs == DigitRunsFrom(text, 1, <<>>)
  IN  [k \in 1..Len(runs) |->
         ParseIntFrom(text, runs[k].first, runs[k].last - runs[k].first + 1, 0)]

\* exactly eight integers, each in 10..100
EightLevels(text) ==
  /\ Len(IntegersOf(text)) = 8
  /\ \A k \in 1..8 : IntegersOf(text)[k] >= 10 /\ IntegersOf(text)[k] <= 100

\* every integer of the text is a word of its own of at most three digits:
\* no letter, digit or underscore touches it
SeparateNumerals(text) ==
  LET runs == DigitRunsFrom(text, 1, <<>>)
  IN  \A k \in 1..Len(runs) :
        /\ runs[k].last - runs[k].first + 1 <= 3
        /\ (runs[k].first = 1 \/ ~IsWordChar(text[runs[k].first - 1]))
        /\ (runs[k].last = Len(text) \/ ~IsWordChar(text[runs[k].last + 1]))

SampleText == RowFrom(Numerals(DocumentedSample), 1, <<>>, <<" ">>)

\* the paste box holds the sample, or the sample has gone through handlePaste:
\* the paste succeeds and the converted spectrum is NC-35
SampleFlow ==
  /\ pasteText = SampleText =>
       /\ parseSpecSheetText(pasteText) = Some(OctaveBandsOf(DocumentedSample))
       /\ calculateNCRating(Bands(58, 50, 43, 38, 35, 33, 32, 31)) = 35
  /\ (IsSet(parseResult)
        /\ Val(parseResult).success
        /\ Val(parseResult).data[1].octaveBands
             = Some(OctaveBandsOf(DocumentedSample))) =>
       /\ uploadState = "success"
       /\ pageOctaveBands = Some(Bands(58, 50, 43, 38, 35, 33, 32, 31))
       /\ result.octaveBands = pageOctaveBands
       /\ result.nc = Some(35)

\* C20 as stated: parseSpecSheetText on a text that contains exactly eight
\* integers, each in 10..100, returns them in input order as hz63..hz8000; the
\* documented sample goes through the paste flow and converts to NC-35.
C20_EightIntegersReturned ==
  /\ EightLevels(pasteText) =>
       parseSpecSheetText(pasteText) = Some(OctaveBandsOf(IntegersOf(pasteText)))
  /\ SampleFlow

\* C20, amended: the eight integers are returned in input order when each is
\* a word of its own of at most three digits (levels written as 58dB or 0058
\* are not read); the documented sample goes through the paste flow and
\* converts to NC-35.
C20_SeparateIntegersReturned ==
  /\ (EightLevels(pasteText) /\ SeparateNumerals(pasteText)) =>
       parseSpecSheetText(pasteText) = Some(OctaveBandsOf(IntegersOf(pasteText)))
  /\ SampleFlow

\* the sample has been pasted: the uploader shows success, the page holds the
\* saved spectrum and the conversion says NC-35
C20_Witness ==
  /\ uploadState = "success"
  /\ IsSet(parseResult)
  /\ Val(parseResult).data[1].octaveBands = Some(OctaveBandsOf(DocumentedSample))
  /\ Len(savedData) >= 1
  /\ called = "convertSoundMeasurement"
  /\ result.nc = Some(35)
  /\ pasteText = <<>>

\* C21: whenever a conversion result has both octaveBands and nc, nc is the
\* lowest standard rating whose curve contains all of result.octaveBands: it
\* equals calculateNCRating(result.octaveBands) and the rating of the curve
\* the chart draws bold, which the caption names NC-{result.nc}.
C21_CaptionNamesBoldCurve ==
  (called = "convertSoundMeasurement"
     /\ IsSet(result.octaveBands) /\ IsSet(result.nc)) =>
    /\ Val(result.nc) = calculateNCRating(Val(result.octaveBands))
    /\ Val(result.nc) = calculateContainingNCRating(Val(result.octaveBands))

\* C22: when the page passes equipmentNC = 71 (spectrum above NC-70), the
\* check of every room type is non-compliant with status "fail".
C22_Fails71 ==
  (IsSet(compliance) /\ equipmentNC = Some(71)) =>
    (~Val(compliance).compliant /\ Val(compliance).status = "fail")

\* the elements of a sequence
Range(seq) == {seq[i] : i \in 1..Len(seq)}

\* C29: getCompliantRoomTypes(n) holds exactly the room types r for which
\* checkCompliance(n, r).compliant is true, in the order of ROOM_TYPES; the
\* room the component has checked is in it iff its result is compliant.
C29_CompliantRoomTypes ==
  IsSet(equipmentNC) =>
    LET n == Val(equipmentNC)
    IN  /\ getCompliantRoomTypes(n) =
             SelectSeq(ROOM_TYPES,
                       LAMBDA room : checkCompliance(n, room).compliant)
        /\ IsSet(compliance) =>
             (Val(compliance).compliant <=>
                Val(getRoomTypeById(selectedRoomId))
                  \in Range(getCompliantRoomTypes(n)))

\* the equipment NC equals the ncMax of the checked room, which complies while
\* other rooms do not
C29_Witness ==
  /\ IsSet(compliance)
  /\ selectedRoomId = "warehouse"
  /\ equipmentNC = Some(65)
  /\ Val(compliance).compliant
  /\ Val(getRoomTypeById("warehouse")) \in Range(getCompliantRoomTypes(65))
  /\ Len(getCompliantRoomTypes(65)) = 3

\* two measurements with the same sones, nc, dba and octaveBands
SameMeasurement(a, b) ==
  /\ a.sones = b.sones
  /\ a.nc = b.nc
  /\ a.dba = b.dba
  /\ a.octaveBands = b.octaveBands

\* C28 as stated: converting a conversion's output again gives the same
\* sones, nc, dba and octaveBands, for every input.
C28_Idempotent ==
  Converted => SameMeasurement(convertSoundMeasurement(result), result)

\* C28: converting a conversion's output again gives the same sones, nc, dba
\* and octaveBands when the input had octaveBands; when the input had nc (a
\* standard rating) and no octaveBands, only nc and octaveBands come back
\* the same.
C28_IdempotentOnSpectra ==
  /\ (Converted /\ IsSet(input.octaveBands)) =>
       SameMeasurement(convertSoundMeasurement(result), result)
  /\ (Converted /\ ~IsSet(input.octaveBands) /\ IsSet(input.nc)
        /\ Val(input.nc) \in StandardRatings) =>
       LET again == convertSoundMeasurement(result)
       IN  again.nc = result.nc /\ again.octaveBands = result.octaveBands

\* a spectrum that is no NC curve has been converted, and converting the
\* result again returns the same four values
C28_Witness ==
  /\ Converted
  /\ IsSet(input.octaveBands)
  /\ Val(input.octaveBands) \notin StandardCurves
  /\ Val(result.nc) > 15
  /\ SameMeasurement(convertSoundMeasurement(result), result)

\* C23: the DocumentUploader runs at most one extraction at a time: no second
\* onDrop call waits, while a call waits the component stays "processing" (no
\* other extraction has started and finished), and a result that is shown was
\* set by the extraction that started last.
C23_OneExtractionAtATime ==
  /\ Len(inFlight) <= 1
  /\ inFlight # <<>> => uploadState = "processing"
  /\ uploadState \in {"success", "error"} => latest

\* C24: whenever a successful parseResult is shown, selectedRowIndex is the
\* index of one of its rows.
C24_RowIndexInRange ==
  (IsSet(parseResult) /\ Val(parseResult).success) =>
    selectedRowIndex < Len(Val(parseResult).data)

\* C26: uploadState is "success" only with a parseResult whose success is
\* true, "error" only with a parseResult whose success is false, and "idle" or
\* "processing" only with no parseResult.
C26_StateMatchesResult ==
  /\ uploadState \in {"idle", "processing", "success", "error"}
  /\ uploadState = "success" =>
       (IsSet(parseResult) /\ Val(parseResult).success)
  /\ uploadState = "error" =>
       (IsSet(parseResult) /\ ~Val(parseResult).success)
  /\ uploadState \in {"idle", "processing"} => parseResult = None

\* an earlier drop has ended in the catch block after a later extraction: the
\* error and its parseResult are shown together
C26_Witness ==
  /\ uploadState = "error"
  /\ IsSet(parseResult)
  /\ Val(parseResult).errors = <<"error.message">>
  /\ ~latest
  /\ Len(savedData) >= 1

\* C25: when every parser promise settles, a component that is "processing"
\* gets to "success" or "error" (also when the onDataExtracted callback
\* throws), and uploadState goes back to "idle" only by reset.
C25_DropLeavesProcessing ==
  /\ (uploadState = "processing") ~> (uploadState \in {"success", "error"})
  /\ [][(uploadState # "idle" /\ uploadState' = "idle") => reset]_vars

\* a picture was dropped, the vision parser found rows and the page's handler
\* threw: the catch block has put the component into "error"
C25_Witness ==
  /\ uploadState = "error"
  /\ usedAI
  /\ IsSet(parseResult)
  /\ Val(parseResult).errors = <<"error.message">>
  /\ inFlight = <<>>
  /\ savedData = <<>>

\* C27: on the main page selectedDataId is null or the id of an item of
\* savedData, after any sequence of auto-save, manual save, select, delete,
\* rename, convert and clear; a step that deletes the selected item leaves
\* selectedDataId and result null.
C27_SelectionInSavedData ==
  /\ [](selectedDataId = None \/ Val(selectedDataId) \in Ids(savedData))
  /\ [][(IsSet(selectedDataId)
           /\ Val(selectedDataId) \in Ids(savedData)
           /\ Val(selectedDataId) \notin Ids(savedData')) =>
          (selectedDataId' = None /\ result' = NoResult)]_vars

\* the second of two saved items has been deleted while it was selected and
\* the first one renamed: nothing is selected, no result is shown
C27_Witness ==
  /\ uuids = 2
  /\ Len(savedData) = 1
  /\ savedData[1].id = 1
  /\ savedData[1].name = <<"AHU-1">>
  /\ selectedDataId = None
  /\ result = NoResult
  /\ pageOctaveBands = None

=============================================================================
